---- MODULE Spec2Model ----
(***************************************************************************)
(* Model of zstdlib.io: the per-stream singleton lookahead wrappers        *)
(* TextIO / BinaryIO (class _IOWrapperBase), their registry _instances,    *)
(* the registry lock _wr_lock and the per-engine RLock.                    *)
(*                                                                         *)
(* A str / bytes value is a record [k, s]: k is the Python type ("str" or  *)
(* "bytes"), s the sequence of its elements.  Operations that mix the two  *)
(* types raise TypeError, as in Python.                                    *)
(***************************************************************************)
EXTENDS Integers, Sequences, FiniteSets, TLC

\* ---------------------------------------------------------------- bounds
\* longest raw stream content drawn in Init
MaxRaw == 2
\* longest pending buffer the callers build up through unread
MaxBuf == 2
\* longest data passed to one unread call
MaxData == 2
\* longest delimiter passed to readuntil
MaxDelim == 2
\* largest size passed to read / peek
MaxSize == 2
\* number of operations each thread starts in the concurrent specification
MaxCalls == 2

\* the elements streams are made of
Elems == {1, 2}

\* the element that stands for the newline character
NL == 2

\* ---------------------------------------------------------------- values
Str(s) == [k |-> "str", s |-> s]
Bytes(s) == [k |-> "bytes", s |-> s]
Val(k, s) == [k |-> k, s |-> s]

\* the value of a slot that was never assigned / of a call that returned None
NoVal == [k |-> "none", s |-> <<>>]

\* v[:0]
EmptyOf(v) == [k |-> v.k, s |-> <<>>]

Min(a, b) == IF a <= b THEN a ELSE b
Max(a, b) == IF a >= b THEN a ELSE b

\* the index a Python slice bound n denotes in a sequence of length len
SliceIndex(len, n) == IF n >= 0 THEN Min(n, len) ELSE Max(len + n, 0)

\* s[:n]
SliceTo(s, n) == SubSeq(s, 1, SliceIndex(Len(s), n))

\* s[n:]
SliceFrom(s, n) == SubSeq(s, SliceIndex(Len(s), n) + 1, Len(s))

\* does sub occur in s at (0-based) offset i
OccursAt(s, sub, i) == /\ i + Len(sub) <= Len(s)
                       /\ \A j \in 1..Len(sub) : s[i + j] = sub[j]

\* s.find(sub): the first 0-based offset of sub in s, -1 when there is none
Find(s, sub) ==
    LET hits == {i \in 0..Len(s) : OccursAt(s, sub, i)}
    IN IF hits = {} THEN -1 ELSE CHOOSE i \in hits : \A j \in hits : i <= j

\* s.endswith(sub)
EndsWith(s, sub) == /\ Len(sub) <= Len(s)
                    /\ OccursAt(s, sub, Len(s) - Len(sub))

Reverse(s) == [i \in 1..Len(s) |-> s[Len(s) + 1 - i]]

SeqsUpTo(n) == UNION {[1..m -> Elems] : m \in 0..n}

\* ---------------------------------------------------------------- results
\* the outcome of one call: the engine's buffer and the unread rest of its
\* raw stream afterwards, the value returned, the exception raised
\* calls lists the calls made on the raw stream, lines is the list readlines
\* returns, locked tells whether the call acquired self.lock
Result(buffer, raw, ret, exc) ==
    [buffer |-> buffer, raw |-> raw, ret |-> ret, exc |-> exc,
     calls |-> <<>>, lines |-> <<>>, locked |-> FALSE]

\* the outcome r of a call that ran inside with self.lock
Locked(r) == [r EXCEPT !.locked = TRUE]

\* one call on the raw stream: read(size) or readline()
RawCall(op, size) == [op |-> op, size |-> size]

\* the outcome r of a call that made the raw-stream calls in calls
Asked(r, calls) == [r EXCEPT !.calls = calls]

\* a raw stream: the type k of what it returns, the elements s it has not yet
\* returned, and what its read does at end-of-stream: return an empty value
\* ("empty"), return None ("none") or raise OSError ("error")
Stream(k, s, eof) == [k |-> k, s |-> s, eof |-> eof]

\* ------------------------------------------------- _IOWrapperBase helpers
\* self.f.raw.read(size) of a Python stream: everything when size < 0,
\* otherwise at most size elements; rest is what the stream has left; at
\* end-of-stream some streams return None and a failing stream raises
RawRead(rest, size) ==
    LET n == IF size < 0 THEN Len(rest.s) ELSE Min(size, Len(rest.s))
    IN [ret |-> IF Len(rest.s) = 0 /\ rest.eof \in {"none", "error"} THEN NoVal
                ELSE Val(rest.k, SubSeq(rest.s, 1, n)),
        raw |-> [rest EXCEPT !.s = SubSeq(rest.s, n + 1, Len(rest.s))],
        exc |-> IF Len(rest.s) = 0 /\ rest.eof = "error" THEN "OSError" ELSE "none"]

\* self.f.raw.readline() of a Python stream: the elements up to and including
\* the first newline, all of them when there is none
RawReadline(rest) ==
    LET at == Find(rest.s, <<NL>>)
        n == IF at = -1 THEN Len(rest.s) ELSE at + 1
    IN [ret |-> IF Len(rest.s) = 0 /\ rest.eof = "error" THEN NoVal
                ELSE Val(rest.k, SubSeq(rest.s, 1, n)),
        raw |-> [rest EXCEPT !.s = SubSeq(rest.s, n + 1, Len(rest.s))],
        exc |-> IF Len(rest.s) = 0 /\ rest.eof = "error" THEN "OSError" ELSE "none"]

\* _read(size): the raw read, an empty result replaced by self._buffer[:0];
\* an exception of the raw read passes through
_read(buffer, rest, size) ==
    LET r == RawRead(rest, size)
    IN [ret |-> IF Len(r.ret.s) > 0 THEN r.ret ELSE EmptyOf(buffer),
        raw |-> r.raw, exc |-> r.exc]

\* a _read_buffer that returns the slice without removing it from the buffer
_read_buffer_keep(buffer, size) ==
    LET sz == IF size = -1 THEN Len(buffer.s) ELSE size
    IN [ret |-> Val(buffer.k, SliceTo(buffer.s, sz)), buffer |-> buffer]

\* _read_buffer(size): split the buffer at size (the whole buffer for -1)
_read_buffer(buffer, size) ==
    LET sz == IF size = -1 THEN Len(buffer.s) ELSE size
    IN [ret |-> Val(buffer.k, SliceTo(buffer.s, sz)),
        buffer |-> Val(buffer.k, SliceFrom(buffer.s, sz))]

\* the elements of a list of chunks, each tagged with the type of its chunk
\* (a str element never equals a bytes element)
RECURSIVE Tagged(_)
Tagged(chunks) ==
    IF chunks = <<>> THEN <<>>
    ELSE LET c == chunks[1]
         IN [i \in 1..Len(c.s) |-> <<c.k, c.s[i]>>] \o Tagged(Tail(chunks))

\* zip(rev, suf) walked from the front: len - index at the first pair that
\* differs, 0 when the shorter of the two ends first
FirstDiff(rev, suf, len) ==
    LET diff == {i \in 1..Min(Len(rev), Len(suf)) : rev[i] # suf[i]}
    IN IF diff = {} THEN 0
       ELSE len - ((CHOOSE i \in diff : \A j \in diff : i <= j) - 1)

\* _remainder(data, suffix): walk data and suffix from their ends in step;
\* at the first pair that differs return len(suffix) - index, and 0 when the
\* shorter of the two is exhausted without a difference
_remainder(data, suffix) ==
    FirstDiff(Reverse(Tagged(data)), Reverse(Tagged(<<suffix>>)), Len(suffix.s))

\* ------------------------------------------------ _IOWrapperBase methods
\* a read that asks the raw stream for size elements whatever the buffer gave
read_overask(buffer, rest, size) ==
    IF size = 0 THEN Result(buffer, rest, EmptyOf(buffer), "none")
    ELSE LET b == _read_buffer(buffer, size)
         IN Locked(
            IF Len(b.ret.s) = size
            THEN Result(b.buffer, rest, b.ret, "none")
            ELSE LET n == size
                     r == _read(b.buffer, rest, n)
                 IN Asked(IF r.exc # "none"
                          THEN Result(b.buffer, r.raw, NoVal, r.exc)
                          ELSE IF r.ret.k # b.ret.k
                          THEN Result(b.buffer, r.raw, NoVal, "TypeError")
                          ELSE Result(b.buffer, r.raw,
                                      Val(b.ret.k, b.ret.s \o r.ret.s), "none"),
                          <<RawCall("read", n)>>))

\* read(size)
read(buffer, rest, size) ==
    IF size = 0 THEN Result(buffer, rest, EmptyOf(buffer), "none")
    ELSE LET b == _read_buffer(buffer, size)
         IN Locked(
            IF Len(b.ret.s) = size
            THEN Result(b.buffer, rest, b.ret, "none")
            ELSE LET n == IF size = -1 THEN -1 ELSE size - Len(b.ret.s)
                     r == _read(b.buffer, rest, n)
                 IN Asked(IF r.exc # "none"
                          THEN Result(b.buffer, r.raw, NoVal, r.exc)
                          ELSE IF r.ret.k # b.ret.k
                          THEN Result(b.buffer, r.raw, NoVal, "TypeError")
                          ELSE Result(b.buffer, r.raw,
                                      Val(b.ret.k, b.ret.s \o r.ret.s), "none"),
                          <<RawCall("read", n)>>))

\* unread(data): self._buffer = data + self._buffer
unread(buffer, rest, data) ==
    Locked(IF data.k # buffer.k
           THEN Result(buffer, rest, NoVal, "TypeError")
           ELSE Result(Val(buffer.k, data.s \o buffer.s), rest, NoVal, "none"))

\* peek(size): self.unread(ret := self.read(size))
peek(buffer, rest, size) ==
    LET r == read(buffer, rest, size)
    IN Locked(
       IF r.exc # "none" THEN r
       ELSE LET u == unread(r.buffer, r.raw, r.ret)
            IN IF u.exc # "none" THEN Asked(u, r.calls)
               ELSE Asked(Result(u.buffer, u.raw, r.ret, "none"), r.calls))

\* the newline of the buffer's type
nl(buffer) == Val(buffer.k, <<NL>>)

\* readline(): the buffer up to and including its first newline; when it has
\* none, the whole buffer followed by the raw stream's readline()
readline(buffer, rest) ==
    LET b == _read_buffer(buffer, Find(buffer.s, nl(buffer).s))
        c == _read_buffer(b.buffer, 1)
        ret == Val(b.ret.k, b.ret.s \o c.ret.s)
    IN Locked(
       IF EndsWith(ret.s, nl(buffer).s)
       THEN Result(c.buffer, rest, ret, "none")
       ELSE LET r == RawReadline(rest)
            IN Asked(IF r.exc # "none"
                     THEN Result(c.buffer, r.raw, NoVal, r.exc)
                     ELSE IF r.ret.k # ret.k
                     THEN Result(c.buffer, r.raw, NoVal, "TypeError")
                     ELSE Result(c.buffer, r.raw, Val(ret.k, ret.s \o r.ret.s), "none"),
                     <<RawCall("readline", 0)>>))

\* the while loop of readlines: ret is the list so far, calls the raw-stream
\* calls so far
RECURSIVE ReadLinesLoop(_, _, _, _)
\* the loop after its readline() ended with outcome add
ReadLinesOn(add, ret, calls) ==
    IF add.exc # "none" THEN Asked(add, calls \o add.calls)
    ELSE IF Len(add.ret.s) = 0
    THEN [Asked(Result(add.buffer, add.raw, NoVal, "none"), calls \o add.calls)
             EXCEPT !.lines = ret]
    ELSE ReadLinesLoop(Append(ret, add.ret), calls \o add.calls, add.buffer, add.raw)

ReadLinesLoop(ret, calls, buffer, rest) ==
    ReadLinesOn(readline(buffer, rest), ret, calls)

\* readlines()
readlines(buffer, rest) == Locked(ReadLinesLoop(<<>>, <<>>, buffer, rest))

\* one evaluation of the condition of readuntil's while loop: the chunk to
\* append (go = TRUE) or the end of the loop (go = FALSE)
ScanStep(chunks, buffer, rest, until) ==
    LET n == _remainder(chunks, until)
    IN IF n = 0 THEN [go |-> FALSE, add |-> NoVal, raw |-> rest, asked |-> <<>>,
                      exc |-> "none"]
       ELSE LET r == _read(buffer, rest, n)
            IN [go |-> r.exc = "none" /\ Len(r.ret.s) > 0, add |-> r.ret, raw |-> r.raw,
                asked |-> <<RawCall("read", n)>>, exc |-> r.exc]

\* the elements of the chunks, one chunk after the other
RECURSIVE Joined(_)
Joined(chunks) ==
    IF chunks = <<>> THEN <<>> ELSE chunks[1].s \o Joined(Tail(chunks))

\* buffer[0][:0].join(buffer), then the eof_ok check and the return
ScanEnd(chunks, buffer, rest, until, eof_ok) ==
    IF \E i \in 1..Len(chunks) : chunks[i].k # chunks[1].k
    THEN Result(buffer, rest, NoVal, "TypeError")
    ELSE IF ~EndsWith(Joined(chunks), until.s) /\ ~eof_ok
    THEN Result(buffer, rest, NoVal, "EOFError")
    ELSE Result(buffer, rest, Val(chunks[1].k, Joined(chunks)), "none")

\* the while loop of readuntil followed by its tail; calls lists the
\* raw-stream calls made so far
RECURSIVE Scan(_, _, _, _, _, _)
\* the loop after its condition was evaluated to st
ScanOn(st, chunks, calls, buffer, until, eof_ok) ==
    IF st.exc # "none"
    THEN Asked(Result(buffer, st.raw, NoVal, st.exc), calls \o st.asked)
    ELSE IF st.go
    THEN Scan(Append(chunks, st.add), calls \o st.asked, buffer, st.raw, until, eof_ok)
    ELSE Asked(ScanEnd(chunks, buffer, st.raw, until, eof_ok), calls \o st.asked)

Scan(chunks, calls, buffer, rest, until, eof_ok) ==
    ScanOn(ScanStep(chunks, buffer, rest, until), chunks, calls, buffer, until, eof_ok)

\* the checks readuntil makes before it takes the lock
readuntil_check(buffer, until) ==
    IF (until.k = "str") # (buffer.k = "str") THEN "TypeError"
    ELSE IF Len(until.s) = 0 THEN "ValueError"
    ELSE "none"

\* a readuntil that scans without looking for the delimiter in the buffer
readuntil_scan(buffer, rest, until, eof_ok) ==
    IF readuntil_check(buffer, until) # "none"
    THEN Result(buffer, rest, NoVal, readuntil_check(buffer, until))
    ELSE LET b == _read_buffer(buffer, -1)
         IN Locked(Scan(<<b.ret>>, <<>>, b.buffer, rest, until, eof_ok))

\* readuntil(until, eof_ok=eof_ok)
readuntil(buffer, rest, until, eof_ok) ==
    IF readuntil_check(buffer, until) # "none"
    THEN Result(buffer, rest, NoVal, readuntil_check(buffer, until))
    ELSE IF Find(buffer.s, until.s) # -1
    THEN LET b == _read_buffer(buffer, Find(buffer.s, until.s) + Len(until.s))
         IN Locked(Result(b.buffer, rest, b.ret, "none"))
    ELSE LET b == _read_buffer(buffer, -1)
         IN Locked(Scan(<<b.ret>>, <<>>, b.buffer, rest, until, eof_ok))

\* ---------------------------------------------------------------- streams
\* the raw streams of the model: fs is opened in text mode "w+", fb in binary
\* mode "wb+" (the RamFile objects of tests/test_io.py)
Streams == {"fs", "fb"}

\* every kind of stream object a caller can pass: besides fs and fb, an object
\* with no mode and no IO base class (fn), a TextIOBase without mode (ft, an
\* io.StringIO), a RawIOBase / BufferedIOBase without mode (fr, an io.BytesIO),
\* a TextIOBase in mode "w+" (fts), a BufferedIOBase in mode "wb+" (frb), and
\* the two whose mode contradicts their base class (ftb, frs)
AllStreams == Streams \cup {"fn", "ft", "fr", "fts", "frb", "ftb", "frs"}

\* getattr(f, "mode", ""), as the sequence of its characters
Mode(f) == IF f \in {"fs", "fts", "frs"} THEN <<"w", "+">>
           ELSE IF f \in {"fb", "frb", "ftb"} THEN <<"w", "b", "+">>
           ELSE <<>>

\* isinstance(f, (RawIOBase, BufferedIOBase)); a SpooledTemporaryFile is neither
IsBinaryBase(f) == f \in {"fr", "frb", "frs"}

\* isinstance(f, TextIOBase)
IsTextBase(f) == f \in {"ft", "fts", "ftb"}

\* the type of what f.read returns
StreamKind(f) ==
    IF (\E i \in 1..Len(Mode(f)) : Mode(f)[i] = "b") \/ IsBinaryBase(f)
    THEN "bytes" ELSE "str"

\* _mode(f, binary), binary one of "None", "True", "False": ret is the value
\* returned (is f a text stream), exc the exception raised
_mode(f, binary) ==
    LET mode == Mode(f)
        hasB == \E i \in 1..Len(mode) : mode[i] = "b"
        bin == (binary = "True") \/ hasB \/ IsBinaryBase(f)
        text == (~bin) \/ (Len(mode) > 0 /\ ~hasB) \/ IsTextBase(f)
    IN IF ~text /\ ~bin THEN [ret |-> FALSE, exc |-> "TypeError"]
       ELSE IF text /\ bin THEN [ret |-> FALSE, exc |-> "TypeError"]
       ELSE [ret |-> text, exc |-> "none"]

\* a check in which BinaryIO.__new__ accepts every stream
new_check_lax(cls, f) ==
    IF cls = "TextIO"
    THEN (IF _mode(f, "False").exc # "none" \/ ~_mode(f, "False").ret
          THEN "TypeError" ELSE "none")
    ELSE "none"

\* the check TextIO.__new__ / BinaryIO.__new__ makes before it reaches
\* _IOWrapperBase.__new__: the exception it raises, "none" when it passes
new_check(cls, f) ==
    IF cls = "TextIO"
    THEN (IF _mode(f, "False").exc # "none" \/ ~_mode(f, "False").ret
          THEN "TypeError" ELSE "none")
    ELSE (IF _mode(f, "True").exc # "none" \/ _mode(f, "True").ret
          THEN "TypeError" ELSE "none")

\* io(raw, binary): the class whose constructor it calls, or the exception
io(f, binary) ==
    IF _mode(f, binary).exc # "none" THEN [cls |-> "none", exc |-> "TypeError"]
    ELSE [cls |-> IF _mode(f, binary).ret THEN "TextIO" ELSE "BinaryIO", exc |-> "none"]

\* the binary argument the class's __init__ passes to _IOWrapperBase.__init__
init_binary(cls) == FALSE

\* _IOWrapperBase.__init__(f, binary=binary) on an engine of class cls; serial
\* numbers the fresh ProtectedFile and RLock objects it creates
__init__(cls, f, binary, serial) ==
    [cls |-> cls,
     buffer |-> IF binary THEN Bytes(<<>>) ELSE Str(<<>>),
     f |-> [id |-> serial, raw |-> f],
     lock |-> serial]

\* what super().__new__(cls) returns: an object with no slot assigned yet
NewObject(cls) ==
    [cls |-> cls, buffer |-> NoVal, f |-> [id |-> 0, raw |-> "none"], lock |-> 0]

\* ------------------------------------------------------------- the façade
\* PROTECTED_PREFIXES; a name is the sequence of its characters
PROTECTED_PREFIXES ==
    << <<"r", "e", "a", "d">>,
       <<"s", "e", "e", "k">>,
       <<"g", "e", "t", "b", "u", "f", "f", "e", "r">>,
       <<"g", "e", "t", "v", "a", "l", "u", "e">>,
       <<"d", "e", "t", "a", "c", "h">> >>

\* the names the ProtectedFile class defines itself: its slot, its class
\* attributes and its methods; normal lookup finds them, so __getattr__ is
\* not called for them
OwnAttrs ==
    { <<"r", "a", "w">>,
      <<"P", "R", "O", "T", "E", "C", "T", "E", "D", "_",
        "P", "R", "E", "F", "I", "X", "E", "S">>,
      <<"_", "_", "s", "l", "o", "t", "s", "_", "_">>,
      <<"_", "_", "i", "n", "i", "t", "_", "_">>,
      <<"_", "_", "g", "e", "t", "a", "t", "t", "r", "_", "_">>,
      <<"_", "_", "h", "a", "s", "h", "_", "_">> }

\* the attributes a raw stream of the model has (a SpooledTemporaryFile),
\* among the names the model asks for
RawAttrs ==
    { <<"r", "e", "a", "d">>,
      <<"r", "e", "a", "d", "l", "i", "n", "e">>,
      <<"s", "e", "e", "k">>,
      <<"s", "e", "e", "k", "a", "b", "l", "e">>,
      <<"d", "e", "t", "a", "c", "h">>,
      <<"m", "o", "d", "e">>,
      <<"w", "r", "i", "t", "e">>,
      <<"c", "l", "o", "s", "e">>,
      <<"t", "e", "l", "l">>,
      <<"_", "_", "i", "n", "i", "t", "_", "_">>,
      <<"_", "_", "h", "a", "s", "h", "_", "_">> }

\* attribute item of object obj, as a value
Attr(obj, item) == [k |-> "attr", of |-> obj, s |-> item]

\* the AttributeError obj raises, whose message names item
Named(obj, item) == [k |-> "named", of |-> obj, s |-> item]

\* getattr(f, item) on the raw stream f
RawGetattr(f, item) ==
    IF item \in RawAttrs
    THEN [ret |-> Attr(f, item), exc |-> "none"]
    ELSE [ret |-> Named(f, item), exc |-> "AttributeError"]

\* an exact comparison in place of the prefix test
startswith_exact(item, prefix) == item = prefix

\* item.startswith(prefix)
startswith(item, prefix) ==
    /\ Len(prefix) <= Len(item)
    /\ \A i \in 1..Len(prefix) : item[i] = prefix[i]

\* ProtectedFile.__getattr__(item) on the façade p = [id, raw]
__getattr__(p, item) ==
    IF \E i \in 1..Len(PROTECTED_PREFIXES) : startswith(item, PROTECTED_PREFIXES[i])
    THEN [ret |-> Named("ProtectedFile", item), exc |-> "AttributeError"]
    ELSE RawGetattr(p.raw, item)

\* p.<item>: the slot raw holds the stream, the class's own names are found on
\* the class, and only a name that normal lookup does not find reaches
\* __getattr__
Lookup(p, item) ==
    IF item = <<"r", "a", "w">> THEN [ret |-> [k |-> "stream", of |-> p.raw, s |-> <<>>],
                                      exc |-> "none"]
    ELSE IF item \in OwnAttrs THEN [ret |-> Attr("ProtectedFile", item), exc |-> "none"]
    ELSE __getattr__(p, item)

\* ---------------------------------------------------------------- state
Threads == {"t1", "t2"}
NoThread == "none"

\* the singleton model uses the same variables for the state of singleton.py;
\* its use of each is given after "singleton:". The model of freezable
\* objects keeps the objects constructed so far in engines and the last call
\* in last
VARIABLES
    instances,   \* _IOWrapperBase._instances: stream -> engine (0: no entry);
                 \* singleton: _SingletonType._instances: class -> object
    engines,     \* the engine objects created so far, by identity 1, 2, ...;
                 \* singleton: the objects constructed so far
    ninit,       \* number of __init__ runs so far
    lockOwner,   \* the RLock objects created so far -> the thread holding it
    wr_lock,     \* _IOWrapperBase._wr_lock: the thread holding it;
                 \* singleton: _SingletonType._lock
    raw,         \* stream -> the content it has not yet returned from read
    pc,          \* thread -> where it is
    frame,       \* thread -> its local variables
    last         \* the last call completed by the single caller;
                 \* singleton: what functools.cache holds for instance

vars == <<instances, engines, ninit, lockOwner, wr_lock, raw, pc, frame, last>>

NoCall == [op |-> "none", f |-> "none", e |-> 0, size |-> 0, arg |-> NoVal,
           eof_ok |-> TRUE, ret |-> NoVal, exc |-> "none", calls |-> <<>>,
           lines |-> <<>>, locked |-> FALSE]

\* the local variables of a thread: the call it is in or completed last (op
\* and its arguments f, binary, size, arg, eof_ok), the class being
\* constructed (cls) and __new__'s ret, the engine the method runs on (self),
\* readuntil's list of chunks, the lock its with-statement holds (held), the
\* value and exception of its last completed call (val, exc), the engines it
\* was handed per stream (got), the streams it holds a reference to (has), and
\* how many calls it has started (calls)
NoFrame == [op |-> "none", f |-> "none", binary |-> "None", cls |-> "none",
            ret |-> 0, self |-> 0, size |-> 0, arg |-> NoVal, eof_ok |-> TRUE,
            chunks |-> <<>>, held |-> 0, val |-> NoVal, exc |-> "none",
            got |-> [g \in Streams |-> 0], has |-> Streams, calls |-> 0]

\* the registry is empty, no engine exists, every stream holds content
InitWith(content) ==
    /\ instances = [f \in Streams |-> 0]
    /\ engines = <<>>
    /\ ninit = 0
    /\ lockOwner = <<>>
    /\ wr_lock = NoThread
    /\ raw = [f \in Streams |-> Stream(StreamKind(f), content, "empty")]
    /\ pc = [t \in Threads |-> "idle"]
    /\ frame = [t \in Threads |-> NoFrame]
    /\ last = NoCall

\* the stream an engine reads: self.f.raw
RawOf(e) == engines[e].f.raw

\* the remaining logical stream of engine e: its buffer, then the raw rest
Logical(e) == engines[e].buffer.s \o raw[RawOf(e)].s

\* ------------------------------------------- calls made by a single caller
\* store the outcome r of a call on engine e
Apply(e, r) ==
    /\ engines' = [engines EXCEPT ![e].buffer = r.buffer]
    /\ raw' = [raw EXCEPT ![RawOf(e)] = r.raw]

\* the caller's record of a call that ended with outcome r
Done(c, r) == [c EXCEPT !.ret = r.ret, !.exc = r.exc, !.calls = r.calls,
                        !.lines = r.lines, !.locked = r.locked]

\* e.read(size)
CallRead(e, size) ==
    \E r \in {read(engines[e].buffer, raw[RawOf(e)], size)} :
       /\ Apply(e, r)
       /\ last' = Done([NoCall EXCEPT !.op = "read", !.e = e, !.size = size], r)
       /\ UNCHANGED <<instances, ninit, lockOwner, wr_lock, pc, frame>>

\* e.unread(data)
CallUnread(e, data) ==
    \E r \in {unread(engines[e].buffer, raw[RawOf(e)], data)} :
       /\ Len(engines[e].buffer.s) + Len(data.s) <= MaxBuf
       /\ Apply(e, r)
       /\ last' = Done([NoCall EXCEPT !.op = "unread", !.e = e, !.arg = data], r)
       /\ UNCHANGED <<instances, ninit, lockOwner, wr_lock, pc, frame>>

\* e.peek(size)
CallPeek(e, size) ==
    \E r \in {peek(engines[e].buffer, raw[RawOf(e)], size)} :
       /\ Apply(e, r)
       /\ last' = Done([NoCall EXCEPT !.op = "peek", !.e = e, !.size = size], r)
       /\ UNCHANGED <<instances, ninit, lockOwner, wr_lock, pc, frame>>

\* e.readuntil(until, eof_ok=eof_ok)
CallReadUntil(e, until, eof_ok) ==
    \E r \in {readuntil(engines[e].buffer, raw[RawOf(e)], until, eof_ok)} :
       /\ Apply(e, r)
       /\ last' = Done([NoCall EXCEPT !.op = "readuntil", !.e = e, !.arg = until,
                                      !.eof_ok = eof_ok], r)
       /\ UNCHANGED <<instances, ninit, lockOwner, wr_lock, pc, frame>>

\* e.readline()
CallReadline(e) ==
    \E r \in {readline(engines[e].buffer, raw[RawOf(e)])} :
       /\ Apply(e, r)
       /\ last' = Done([NoCall EXCEPT !.op = "readline", !.e = e], r)
       /\ UNCHANGED <<instances, ninit, lockOwner, wr_lock, pc, frame>>

\* e.readlines()
CallReadlines(e) ==
    \E r \in {readlines(engines[e].buffer, raw[RawOf(e)])} :
       /\ Apply(e, r)
       /\ last' = Done([NoCall EXCEPT !.op = "readlines", !.e = e], r)
       /\ UNCHANGED <<instances, ninit, lockOwner, wr_lock, pc, frame>>

\* the arguments the caller passes
Sizes == (0 - 2)..MaxSize
Datas == {Str(s) : s \in SeqsUpTo(MaxData)} \cup {Bytes(s) : s \in SeqsUpTo(1)}
Delims == {Str(s) : s \in SeqsUpTo(MaxDelim)} \cup {Bytes(s) : s \in SeqsUpTo(1)}

\* the state right after cls(f) returned the first engine of the process, for
\* streams whose read returns one of eofs at end-of-stream
InitOne(eofs) ==
    \E content \in SeqsUpTo(MaxRaw), cls \in {"TextIO", "BinaryIO"}, f \in Streams,
       eof \in eofs :
        /\ new_check(cls, f) = "none"
        /\ instances = [g \in Streams |-> IF g = f THEN 1 ELSE 0]
        /\ engines = <<__init__(cls, f, init_binary(cls), 1)>>
        /\ ninit = 1
        /\ lockOwner = <<NoThread>>
        /\ wr_lock = NoThread
        /\ raw = [g \in Streams |-> Stream(StreamKind(g), content, eof)]
        /\ pc = [t \in Threads |-> "idle"]
        /\ frame = [t \in Threads |-> NoFrame]
        /\ last = NoCall

\* the streams return an empty str / bytes at end-of-stream
InitSeq == InitOne({"empty"})

NextSeq ==
    \/ \E e \in 1..Len(engines), n \in Sizes : CallRead(e, n)
    \/ \E e \in 1..Len(engines), d \in Datas : CallUnread(e, d)
    \/ \E e \in 1..Len(engines), n \in Sizes : CallPeek(e, n)
    \/ \E e \in 1..Len(engines), d \in Delims, ok \in BOOLEAN : CallReadUntil(e, d, ok)
    \/ \E e \in 1..Len(engines) : CallReadline(e)
    \/ \E e \in 1..Len(engines) : CallReadlines(e)

\* one caller of one engine, every call runs to completion before the next
SpecSeq == InitSeq /\ [][NextSeq]_vars

\* ------------------------------------ streams that return None when drained
\* the stream's read returns an empty value or None at end-of-stream
InitEof == InitOne({"empty", "none"})

NextEof ==
    \/ \E e \in 1..Len(engines), n \in Sizes : CallRead(e, n)
    \/ \E e \in 1..Len(engines), d \in Datas : CallUnread(e, d)
    \/ \E e \in 1..Len(engines), n \in Sizes : CallPeek(e, n)

\* one caller reading one engine to the end of its stream and beyond
SpecEof == InitEof /\ [][NextEof]_vars

\* ------------------------------------- streams whose read raises when drained
\* the stream's read raises OSError at end-of-stream
InitFail == InitOne({"error"})

NextFail ==
    \/ \E e \in 1..Len(engines), n \in Sizes : CallRead(e, n)
    \/ \E e \in 1..Len(engines), d \in Datas : CallUnread(e, d)
    \/ \E e \in 1..Len(engines), n \in Sizes : CallPeek(e, n)
    \/ \E e \in 1..Len(engines) : CallReadline(e)

\* one caller of one engine whose raw stream fails once it is drained
SpecFail == InitFail /\ [][NextFail]_vars

\* ------------------------------------------- attribute access on the façade
\* e.f.<item>
CallGetattr(e, item) ==
    \E r \in {Lookup(engines[e].f, item)} :
       /\ last' = [NoCall EXCEPT !.op = "getattr", !.e = e, !.f = RawOf(e),
                                 !.arg = [k |-> "name", s |-> item],
                                 !.ret = r.ret, !.exc = r.exc]
       /\ UNCHANGED <<instances, engines, ninit, lockOwner, wr_lock, raw, pc, frame>>

\* the names the caller asks for: the stream's reading and positioning
\* operations, names that only resemble them, other attributes of the stream,
\* names no object has, and the façade's own
AttrNames ==
    RawAttrs \cup OwnAttrs \cup
    { <<"r", "e", "a", "d", "a", "l", "l">>,
      <<"g", "e", "t", "b", "u", "f", "f", "e", "r">>,
      <<"g", "e", "t", "v", "a", "l", "u", "e">>,
      <<"d", "e", "t", "a", "c", "h", "x">>,
      <<"r", "e", "a">>,
      <<"u", "n", "r", "e", "a", "d">>,
      <<"f", "o", "o">> }

NextFile ==
    \E e \in 1..Len(engines), item \in AttrNames : CallGetattr(e, item)

\* one caller reading attributes of one engine's façade
SpecFile == InitSeq /\ [][NextFile]_vars

\* ------------------------------------- obtain calls made by a single caller
\* the most engines the caller initialises
MaxWraps == 2

\* a call op(f) or io(f, binary) run to completion: exc is what the check
\* before _IOWrapperBase.__new__ raised and cls the class whose __new__ runs;
\* __new__ returns the registered engine or registers a new object, and type
\* runs __init__ on it when it is an instance of cls
ObtainDo(op, f, binary, cls, exc) ==
    LET c == [NoCall EXCEPT !.op = op, !.f = f, !.arg = [k |-> "bool", s |-> <<binary>>]]
        e == IF instances[f] = 0 THEN Len(engines) + 1 ELSE instances[f]
        objs == IF instances[f] = 0 THEN Append(engines, NewObject(cls)) ELSE engines
    IN IF exc # "none"
       THEN /\ last' = [c EXCEPT !.exc = exc]
            /\ UNCHANGED <<instances, engines, ninit, lockOwner>>
       ELSE /\ instances' = [instances EXCEPT ![f] = e]
            /\ last' = [c EXCEPT !.e = e]
            /\ IF objs[e].cls = cls
               THEN /\ ninit < MaxWraps
                    /\ engines' = [objs EXCEPT ![e] =
                          __init__(cls, f, init_binary(cls), ninit + 1)]
                    /\ ninit' = ninit + 1
                    /\ lockOwner' = Append(lockOwner, NoThread)
               ELSE /\ engines' = objs
                    /\ UNCHANGED <<ninit, lockOwner>>

\* an obtain call that skips the check when f already has an engine
Obtain_unchecked(op, f, binary, cls, exc) ==
    /\ ObtainDo(op, f, binary, cls, IF instances[f] # 0 THEN "none" ELSE exc)
    /\ UNCHANGED <<wr_lock, raw, pc, frame>>

\* the call as the caller sees it
Obtain(op, f, binary, cls, exc) ==
    /\ ObtainDo(op, f, binary, cls, exc)
    /\ UNCHANGED <<wr_lock, raw, pc, frame>>

\* TextIO(f)
CallTextIO(f) == Obtain("TextIO", f, "None", "TextIO", new_check("TextIO", f))

\* BinaryIO(f)
CallBinaryIO(f) == Obtain("BinaryIO", f, "None", "BinaryIO", new_check("BinaryIO", f))

\* io(f, binary)
CallIo(f, binary) ==
    Obtain("io", f, binary, io(f, binary).cls,
           IF io(f, binary).exc # "none" THEN io(f, binary).exc
           ELSE new_check(io(f, binary).cls, f))

\* the registry is empty and no engine exists
InitWrap ==
    /\ instances = [f \in AllStreams |-> 0]
    /\ engines = <<>>
    /\ ninit = 0
    /\ lockOwner = <<>>
    /\ wr_lock = NoThread
    /\ raw = [f \in AllStreams |-> Stream(StreamKind(f), <<>>, "empty")]
    /\ pc = [t \in Threads |-> "idle"]
    /\ frame = [t \in Threads |-> NoFrame]
    /\ last = NoCall

NextWrap ==
    \/ \E f \in AllStreams : CallTextIO(f)
    \/ \E f \in AllStreams : CallBinaryIO(f)
    \/ \E f \in AllStreams, binary \in {"None", "True", "False"} : CallIo(f, binary)

\* one caller wrapping stream objects of every kind, each call running to
\* completion before the next
SpecWrap == InitWrap /\ [][NextWrap]_vars

\* ------------------------------------------------------- concurrent callers
\* an acquire that never blocks
CanAcquire_unlocked(owner, t) == TRUE

\* RLock.acquire by thread t does not block
CanAcquire(owner, t) == owner = NoThread \/ owner = t

\* thread t starts call op: its frame with the arguments filled in
Enter(t, op) == [frame[t] EXCEPT !.op = op, !.f = "none", !.binary = "None",
                                 !.size = 0, !.arg = NoVal, !.eof_ok = TRUE,
                                 !.val = NoVal, !.exc = "none",
                                 !.calls = frame[t].calls + 1]

\* the frame fr once its call has returned val or raised exc
Leave(fr, val, exc) == [fr EXCEPT !.cls = "none", !.ret = 0, !.self = 0,
                                  !.chunks = <<>>, !.held = 0,
                                  !.val = val, !.exc = exc]

CanCall(t) == pc[t] = "idle" /\ frame[t].calls < MaxCalls

\* t calls op (TextIO(f), BinaryIO(f) or io(f, binary)); cls is the class
\* whose __new__ runs and exc what was raised before _IOWrapperBase.__new__
BeginObtain(t, op, f, binary, cls, exc) ==
    /\ CanCall(t)
    /\ IF exc # "none"
       THEN /\ frame' = [frame EXCEPT ![t] =
                  Leave([Enter(t, op) EXCEPT !.f = f, !.binary = binary], NoVal, exc)]
            /\ pc' = pc
       ELSE /\ frame' = [frame EXCEPT ![t] =
                  [Enter(t, op) EXCEPT !.f = f, !.binary = binary, !.cls = cls]]
            /\ pc' = [pc EXCEPT ![t] = "new_lock"]
    /\ UNCHANGED <<instances, engines, ninit, lockOwner, wr_lock, raw, last>>

\* TextIO(f)
BeginTextIO(t, f) ==
    BeginObtain(t, "TextIO", f, "None", "TextIO", new_check("TextIO", f))

\* BinaryIO(f)
BeginBinaryIO(t, f) ==
    BeginObtain(t, "BinaryIO", f, "None", "BinaryIO", new_check("BinaryIO", f))

\* io(f, binary)
BeginIo(t, f, binary) ==
    BeginObtain(t, "io", f, binary, io(f, binary).cls,
                IF io(f, binary).exc # "none" THEN io(f, binary).exc
                ELSE new_check(io(f, binary).cls, f))

\* __new__: with cls._wr_lock
NewLock(t) ==
    /\ pc[t] = "new_lock"
    /\ CanAcquire(wr_lock, t)
    /\ wr_lock' = t
    /\ pc' = [pc EXCEPT ![t] = "new_get"]
    /\ UNCHANGED <<instances, engines, ninit, lockOwner, raw, frame, last>>

\* the frame and place of t when __new__ returns engine e: type runs __init__
\* only on an instance of the class that was called
AfterNew(t, e, cls) ==
    IF cls = frame[t].cls
    THEN /\ frame' = [frame EXCEPT ![t].ret = e]
         /\ pc' = [pc EXCEPT ![t] = "init"]
    ELSE /\ frame' = [frame EXCEPT ![t] = Leave([frame[t] EXCEPT !.got[frame[t].f] = e], NoVal, "none")]
         /\ pc' = [pc EXCEPT ![t] = "idle"]

\* __new__: ret := cls._instances.get(f, None); when there is an entry the
\* with-block ends and __new__ returns it
NewGet(t) ==
    /\ pc[t] = "new_get"
    /\ IF instances[frame[t].f] = 0
       THEN /\ pc' = [pc EXCEPT ![t] = "new_create"]
            /\ UNCHANGED <<frame, wr_lock>>
       ELSE /\ AfterNew(t, instances[frame[t].f], engines[instances[frame[t].f]].cls)
            /\ wr_lock' = NoThread
    /\ UNCHANGED <<instances, engines, ninit, lockOwner, raw, last>>

\* __new__: cls._instances[f] = (ret := super().__new__(cls)), end of the
\* with-block, return ret
NewCreate(t) ==
    /\ pc[t] = "new_create"
    /\ engines' = Append(engines, NewObject(frame[t].cls))
    /\ instances' = [instances EXCEPT ![frame[t].f] = Len(engines) + 1]
    /\ AfterNew(t, Len(engines) + 1, frame[t].cls)
    /\ wr_lock' = NoThread
    /\ UNCHANGED <<ninit, lockOwner, raw, last>>

\* __init__ on the engine __new__ returned, then the constructor call returns
InitRun(t) ==
    /\ pc[t] = "init"
    /\ engines' = [engines EXCEPT ![frame[t].ret] =
          __init__(frame[t].cls, frame[t].f, init_binary(frame[t].cls), ninit + 1)]
    /\ ninit' = ninit + 1
    /\ lockOwner' = Append(lockOwner, NoThread)
    /\ frame' = [frame EXCEPT ![t] =
          Leave([frame[t] EXCEPT !.got[frame[t].f] = frame[t].ret], NoVal, "none")]
    /\ pc' = [pc EXCEPT ![t] = "idle"]
    /\ UNCHANGED <<instances, wr_lock, raw, last>>

\* the engines thread t was handed
Held(t) == {frame[t].got[f] : f \in Streams} \ {0}

\* one lock object shared by all engines
WithLock_shared(t, e, fr, where) ==
    /\ CanAcquire(lockOwner[1], t)
    /\ lockOwner' = [lockOwner EXCEPT ![1] = t]
    /\ frame' = [frame EXCEPT ![t] = [fr EXCEPT !.self = e, !.held = 1]]
    /\ pc' = [pc EXCEPT ![t] = where]

\* with self.lock: t takes the engine's current lock object and goes to pc
\* where; fr is its frame with the call's arguments
WithLock(t, e, fr, where) ==
    /\ CanAcquire(lockOwner[engines[e].lock], t)
    /\ lockOwner' = [lockOwner EXCEPT ![engines[e].lock] = t]
    /\ frame' = [frame EXCEPT ![t] = [fr EXCEPT !.self = e, !.held = engines[e].lock]]
    /\ pc' = [pc EXCEPT ![t] = where]

\* a with-block that keeps its lock when the call raises
Unlock_leaky(t, val, exc) ==
    /\ lockOwner' = IF exc = "none" THEN [lockOwner EXCEPT ![frame[t].held] = NoThread]
                    ELSE lockOwner
    /\ frame' = [frame EXCEPT ![t] = Leave(frame[t], val, exc)]
    /\ pc' = [pc EXCEPT ![t] = "idle"]

\* the with-block of t ends: its lock is released, the call returns or raises
Unlock(t, val, exc) ==
    /\ lockOwner' = [lockOwner EXCEPT ![frame[t].held] = NoThread]
    /\ frame' = [frame EXCEPT ![t] = Leave(frame[t], val, exc)]
    /\ pc' = [pc EXCEPT ![t] = "idle"]

\* store the outcome r of a step on engine e
Store(e, r) ==
    /\ engines' = [engines EXCEPT ![e].buffer = r.buffer]
    /\ raw' = [raw EXCEPT ![RawOf(e)] = r.raw]

\* a read that takes the lock whatever the size
BeginRead_locked(t, e, size) ==
    /\ CanCall(t)
    /\ WithLock(t, e, [Enter(t, "read") EXCEPT !.size = size], "read_body")
    /\ UNCHANGED <<instances, engines, ninit, wr_lock, raw, last>>

\* e.read(size) is called: size 0 returns at once, without the lock
BeginRead(t, e, size) ==
    /\ CanCall(t)
    /\ IF size = 0
       THEN /\ frame' = [frame EXCEPT ![t] =
                  Leave(Enter(t, "read"), EmptyOf(engines[e].buffer), "none")]
            /\ UNCHANGED <<pc, lockOwner>>
       ELSE WithLock(t, e, [Enter(t, "read") EXCEPT !.size = size], "read_body")
    /\ UNCHANGED <<instances, engines, ninit, wr_lock, raw, last>>

\* the with-block of read
ReadBody(t) ==
    /\ pc[t] = "read_body"
    /\ \E e \in {frame[t].self} :
       \E r \in {read(engines[e].buffer, raw[RawOf(e)], frame[t].size)} :
       /\ Store(e, r)
       /\ Unlock(t, r.ret, r.exc)
       /\ UNCHANGED <<instances, ninit, wr_lock, last>>

\* e.unread(data) is called
BeginUnread(t, e, data) ==
    /\ CanCall(t)
    /\ Len(engines[e].buffer.s) + Len(data.s) <= MaxBuf
    /\ WithLock(t, e, [Enter(t, "unread") EXCEPT !.arg = data], "unread_body")
    /\ UNCHANGED <<instances, engines, ninit, wr_lock, raw, last>>

\* the with-block of unread
UnreadBody(t) ==
    /\ pc[t] = "unread_body"
    /\ \E e \in {frame[t].self} :
       \E r \in {unread(engines[e].buffer, raw[RawOf(e)], frame[t].arg)} :
       /\ Store(e, r)
       /\ Unlock(t, r.ret, r.exc)
       /\ UNCHANGED <<instances, ninit, wr_lock, last>>

\* e.peek(size) is called
BeginPeek(t, e, size) ==
    /\ CanCall(t)
    /\ WithLock(t, e, [Enter(t, "peek") EXCEPT !.size = size], "peek_read")
    /\ UNCHANGED <<instances, engines, ninit, wr_lock, raw, last>>

\* peek: ret := self.read(size); the nested read takes the engine's current
\* lock object again unless size is 0
PeekRead(t) ==
    /\ pc[t] = "peek_read"
    /\ \E e \in {frame[t].self} :
       \E r \in {read(engines[e].buffer, raw[RawOf(e)], frame[t].size)} :
       /\ frame[t].size = 0 \/ CanAcquire(lockOwner[engines[e].lock], t)
       /\ Store(e, r)
       /\ IF r.exc # "none"
          THEN Unlock(t, r.ret, r.exc)
          ELSE /\ frame' = [frame EXCEPT ![t].val = r.ret]
               /\ pc' = [pc EXCEPT ![t] = "peek_unread"]
               /\ UNCHANGED lockOwner
       /\ UNCHANGED <<instances, ninit, wr_lock, last>>

\* peek: self.unread(ret), end of the with-block, return ret
PeekUnread(t) ==
    /\ pc[t] = "peek_unread"
    /\ \E e \in {frame[t].self} :
       \E r \in {unread(engines[e].buffer, raw[RawOf(e)], frame[t].val)} :
       /\ CanAcquire(lockOwner[engines[e].lock], t)
       /\ Store(e, r)
       /\ Unlock(t, IF r.exc = "none" THEN frame[t].val ELSE NoVal, r.exc)
       /\ UNCHANGED <<instances, ninit, wr_lock, last>>

\* e.readuntil(until, eof_ok=eof_ok) is called: the two checks, then the lock
BeginReadUntil(t, e, until, eof_ok) ==
    /\ CanCall(t)
    /\ IF readuntil_check(engines[e].buffer, until) # "none"
       THEN /\ frame' = [frame EXCEPT ![t] =
                  Leave([Enter(t, "readuntil") EXCEPT !.arg = until, !.eof_ok = eof_ok],
                        NoVal, readuntil_check(engines[e].buffer, until))]
            /\ UNCHANGED <<pc, lockOwner>>
       ELSE WithLock(t, e, [Enter(t, "readuntil") EXCEPT !.arg = until, !.eof_ok = eof_ok],
                     "ru_start")
    /\ UNCHANGED <<instances, engines, ninit, wr_lock, raw, last>>

\* readuntil: the delimiter is in the buffer, or the scan starts with the
\* whole buffer as the first chunk
RuStart(t) ==
    LET e == frame[t].self
        buf == engines[e].buffer
        at == Find(buf.s, frame[t].arg.s)
        b == _read_buffer(buf, IF at # -1 THEN at + Len(frame[t].arg.s) ELSE -1)
    IN /\ pc[t] = "ru_start"
       /\ engines' = [engines EXCEPT ![e].buffer = b.buffer]
       /\ IF at # -1
          THEN Unlock(t, b.ret, "none")
          ELSE /\ frame' = [frame EXCEPT ![t].chunks = <<b.ret>>]
               /\ pc' = [pc EXCEPT ![t] = "ru_loop"]
               /\ UNCHANGED lockOwner
       /\ UNCHANGED <<instances, ninit, wr_lock, raw, last>>

\* a scan whose loop goes on whatever the raw read returned
ScanTurn_endless(t, st, r) ==
    /\ frame' = [frame EXCEPT ![t].chunks = Append(frame[t].chunks, st.add)]
    /\ UNCHANGED <<pc, lockOwner>>

\* readuntil's loop after its condition was evaluated to st: a raw-stream
\* exception leaves the call, a non-empty chunk is appended, anything else
\* ends the loop with outcome r
ScanTurn(t, st, r) ==
    IF st.exc # "none" THEN Unlock(t, NoVal, st.exc)
    ELSE IF st.go
    THEN /\ frame' = [frame EXCEPT ![t].chunks = Append(frame[t].chunks, st.add)]
         /\ UNCHANGED <<pc, lockOwner>>
    ELSE Unlock(t, r.ret, r.exc)

\* readuntil: one evaluation of the loop condition; the loop appends a chunk
\* or ends, and then the call returns or raises
RuLoop(t) ==
    /\ pc[t] = "ru_loop"
    /\ \E e \in {frame[t].self} :
       \E st \in {ScanStep(frame[t].chunks, engines[e].buffer, raw[RawOf(e)], frame[t].arg)} :
       \E r \in {ScanEnd(frame[t].chunks, engines[e].buffer, st.raw, frame[t].arg,
                         frame[t].eof_ok)} :
       /\ raw' = [raw EXCEPT ![RawOf(e)] = st.raw]
       /\ ScanTurn(t, st, r)
       /\ UNCHANGED <<instances, engines, ninit, wr_lock, last>>

\* the arguments the threads pass
ThreadSizes == {0, 1}
ThreadDatas == {Str(<<1>>)}
ThreadDelims == {Str(<<2>>)}
ThreadBinaries == {"None", "True"}

\* what every stream holds when the threads start
ThreadContent == <<1, 2>>

Init == InitWith(ThreadContent)

Next ==
    \E t \in Threads :
        \/ \E f \in Streams : BeginTextIO(t, f)
        \/ \E f \in Streams : BeginBinaryIO(t, f)
        \/ \E f \in Streams, b \in ThreadBinaries : BeginIo(t, f, b)
        \/ NewLock(t)
        \/ NewGet(t)
        \/ NewCreate(t)
        \/ InitRun(t)
        \/ \E e \in Held(t), n \in ThreadSizes : BeginRead(t, e, n)
        \/ ReadBody(t)
        \/ \E e \in Held(t), d \in ThreadDatas : BeginUnread(t, e, d)
        \/ UnreadBody(t)
        \/ \E e \in Held(t), n \in ThreadSizes : BeginPeek(t, e, n)
        \/ PeekRead(t)
        \/ PeekUnread(t)
        \/ \E e \in Held(t), d \in ThreadDelims, ok \in BOOLEAN : BeginReadUntil(t, e, d, ok)
        \/ RuStart(t)
        \/ RuLoop(t)

\* threads constructing wrappers and calling their methods concurrently
Spec == Init /\ [][Next]_vars

\* ------------------------------- concurrent callers of streams that can fail
\* the streams when the threads start: drained ones whose read raises
\* OSError, or ones that hold one element and return an empty value at
\* end-of-stream
LocksStreams == {[s |-> <<>>, eof |-> "error"], [s |-> <<2>>, eof |-> "empty"]}

\* the registry is empty, no engine exists
InitLocks ==
    \E st \in LocksStreams :
        /\ instances = [f \in Streams |-> 0]
        /\ engines = <<>>
        /\ ninit = 0
        /\ lockOwner = <<>>
        /\ wr_lock = NoThread
        /\ raw = [f \in Streams |-> Stream(StreamKind(f), st.s, st.eof)]
        /\ pc = [t \in Threads |-> "idle"]
        /\ frame = [t \in Threads |-> NoFrame]
        /\ last = NoCall

\* delimiters readuntil rejects: the empty one and one of the other type
BadDelims == {Str(<<>>), Bytes(<<2>>)}

NextLocks ==
    \/ Next
    \/ \E t \in Threads : \E e \in Held(t), d \in BadDelims : BeginReadUntil(t, e, d, TRUE)

\* threads whose calls end in every way a call can end: a value, TypeError,
\* ValueError, EOFError, or the exception of the raw stream
SpecLocks == InitLocks /\ [][NextLocks]_vars

\* ------------------------------------------------- the loops, turn by turn
\* e.readlines() is called: with self.lock, ret = []
BeginReadlines(t, e) ==
    /\ CanCall(t)
    /\ WithLock(t, e, Enter(t, "readlines"), "rl_loop")
    /\ UNCHANGED <<instances, engines, ninit, wr_lock, raw, last>>

\* readlines: one evaluation of the loop condition add := self.readline(); a
\* non-empty line is appended to ret, an empty one ends the call
RlLoop(t) ==
    /\ pc[t] = "rl_loop"
    /\ \E e \in {frame[t].self} :
       \E r \in {readline(engines[e].buffer, raw[RawOf(e)])} :
       /\ CanAcquire(lockOwner[engines[e].lock], t)
       /\ Store(e, r)
       /\ IF r.exc # "none" THEN Unlock(t, NoVal, r.exc)
          ELSE IF Len(r.ret.s) > 0
          THEN /\ frame' = [frame EXCEPT ![t].chunks = Append(frame[t].chunks, r.ret)]
               /\ UNCHANGED <<pc, lockOwner>>
          ELSE Unlock(t, NoVal, "none")
       /\ UNCHANGED <<instances, ninit, wr_lock, last>>

\* the one engine of the process exists; its stream is finite and its read
\* returns an empty value or None at end-of-stream
InitLoop == InitOne({"empty", "none"})

\* the arguments the caller passes
LoopDatas == {Str(<<1>>)}
LoopDelims == {Str(<<2>>), Str(<<1, 2>>)}

\* the caller
Caller == "t1"

\* the next step of the call the caller is in
Turn ==
    \/ UnreadBody(Caller)
    \/ RuStart(Caller)
    \/ RuLoop(Caller)
    \/ RlLoop(Caller)

NextLoop ==
    \/ \E e \in 1..Len(engines), d \in LoopDatas : BeginUnread(Caller, e, d)
    \/ \E e \in 1..Len(engines), d \in LoopDelims, ok \in BOOLEAN : BeginReadUntil(Caller, e, d, ok)
    \/ \E e \in 1..Len(engines) : BeginReadlines(Caller, e)
    \/ Turn

\* one caller whose readuntil and readlines calls run one loop turn at a
\* time; a call that has begun keeps running and every raw read returns
SpecLoop == InitLoop /\ [][NextLoop]_vars /\ WF_vars(Turn)

\* ------------------------------------------------- lifetime of the entries
\* a stream object that was collected
Freed == Stream("none", <<>>, "empty")

\* the engines the registry holds as values: a WeakKeyDictionary refers
\* weakly to its keys and strongly to its values
RegistryValues == {instances[g] : g \in Streams} \ {0}

\* the engines some thread still refers to
HeldEngines == UNION {Held(t) : t \in Threads}

\* stream f is strongly reachable from the registry: one of its values refers
\* to f through its ProtectedFile (self.f.raw)
StrongFromRegistry(f) == \E e \in RegistryValues : engines[e].f.raw = f

\* stream f is strongly reachable: a thread refers to it, or an engine that is
\* itself reachable (from a thread or as a value of the registry) does
Reachable(f) ==
    \/ \E t \in Threads : f \in frame[t].has
    \/ \E e \in HeldEngines \cup RegistryValues : engines[e].f.raw = f

\* thread t drops its reference to the raw stream f
DropStream(t, f) ==
    /\ f \in frame[t].has
    /\ frame' = [frame EXCEPT ![t].has = frame[t].has \ {f}]
    /\ UNCHANGED <<instances, engines, ninit, lockOwner, wr_lock, raw, pc, last>>

\* thread t drops its reference to the engine it was handed for f
DropEngine(t, f) ==
    /\ frame[t].got[f] # 0
    /\ frame' = [frame EXCEPT ![t].got[f] = 0]
    /\ UNCHANGED <<instances, engines, ninit, lockOwner, wr_lock, raw, pc, last>>

\* the collector frees stream f once nothing refers to it strongly; the
\* registry's weak reference to the key then removes the entry
Collect(f) ==
    /\ raw[f] # Freed
    /\ ~Reachable(f)
    /\ raw' = [raw EXCEPT ![f] = Freed]
    /\ instances' = [instances EXCEPT ![f] = 0]
    /\ UNCHANGED <<engines, ninit, lockOwner, wr_lock, pc, frame, last>>

\* the state right after thread t1 obtained the first engine of the process:
\* t1 refers to both streams and to the engine, t2 to nothing
InitGc ==
    \E content \in SeqsUpTo(MaxRaw), cls \in {"TextIO", "BinaryIO"}, f \in Streams :
        /\ new_check(cls, f) = "none"
        /\ instances = [g \in Streams |-> IF g = f THEN 1 ELSE 0]
        /\ engines = <<__init__(cls, f, init_binary(cls), 1)>>
        /\ ninit = 1
        /\ lockOwner = <<NoThread>>
        /\ wr_lock = NoThread
        /\ raw = [g \in Streams |-> Stream(StreamKind(g), content, "empty")]
        /\ pc = [t \in Threads |-> "idle"]
        /\ frame = [t \in Threads |->
              IF t = "t1" THEN [NoFrame EXCEPT !.got[f] = 1]
              ELSE [NoFrame EXCEPT !.has = {}]]
        /\ last = NoCall

NextGc ==
    \/ \E t \in Threads, e \in 1..Len(engines), d \in Datas :
          e \in Held(t) /\ CallUnread(e, d)
    \/ \E t \in Threads, f \in Streams : DropStream(t, f)
    \/ \E t \in Threads, f \in Streams : DropEngine(t, f)
    \/ \E f \in Streams : Collect(f)

\* one thread uses an engine and lets go of its references while the collector
\* runs
SpecGc == InitGc /\ [][NextGc]_vars

\* ------------------------------------------------------------- singletons
\* two Singleton subclasses, defined before any thread runs
Classes == {"A", "B"}

\* one lock for every class
_cls_locks_shared(c) == 1

\* _SingletonType._cls_locks, filled in by _SingletonType.__new__ when the
\* class is defined: class -> its RLock, by identity
_cls_locks(c) == IF c = "A" THEN 1 ELSE 2

\* a test that finds no instance whatever the registry holds
NotYet_always(got) == TRUE

\* __call__: (ret := cls._instances.get(cls, _None)) is _None
NotYet(got) == got = 0

\* a lookup that returns what it found without a test
instance_get_lax(got) == [ret |-> got, exc |-> "none"]

\* instance: the with-block over got := mcs._instances.get(t, _None)
instance_get(got) ==
    IF got = 0 THEN [ret |-> 0, exc |-> "NoInstanceError"]
    ELSE [ret |-> got, exc |-> "none"]

\* the frame of t when it starts op on class c
SEnter(t, op, c) == [NoFrame EXCEPT !.op = op, !.cls = c, !.calls = frame[t].calls + 1]

\* the frame of t when its call returns obj or raises exc
SLeave(t, obj, exc) == [frame[t] EXCEPT !.ret = obj, !.exc = exc, !.held = 0]

\* thread t calls c(...)
BeginCall(t, c) ==
    /\ CanCall(t)
    /\ frame' = [frame EXCEPT ![t] = SEnter(t, "call", c)]
    /\ pc' = [pc EXCEPT ![t] = "call_lock"]
    /\ UNCHANGED <<instances, engines, ninit, lockOwner, wr_lock, raw, last>>

\* __call__: with cls._lock
CallLock(t) ==
    /\ pc[t] = "call_lock"
    /\ CanAcquire(wr_lock, t)
    /\ wr_lock' = t
    /\ pc' = [pc EXCEPT ![t] = "call_cls"]
    /\ UNCHANGED <<instances, engines, ninit, lockOwner, raw, frame, last>>

\* __call__: cls_lock = cls._cls_locks[cls], end of the with-block
CallCls(t) ==
    /\ pc[t] = "call_cls"
    /\ frame' = [frame EXCEPT ![t].held = _cls_locks(frame[t].cls)]
    /\ wr_lock' = NoThread
    /\ pc' = [pc EXCEPT ![t] = "call_with"]
    /\ UNCHANGED <<instances, engines, ninit, lockOwner, raw, last>>

\* __call__: with cls_lock
CallWith(t) ==
    /\ pc[t] = "call_with"
    /\ CanAcquire(lockOwner[frame[t].held], t)
    /\ lockOwner' = [lockOwner EXCEPT ![frame[t].held] = t]
    /\ pc' = [pc EXCEPT ![t] = "call_get"]
    /\ UNCHANGED <<instances, engines, ninit, wr_lock, raw, frame, last>>

\* __call__: ret := cls._instances.get(cls, _None); with an instance the
\* with-block ends and the call returns it, without one the constructor starts
CallGet(t) ==
    /\ pc[t] = "call_get"
    /\ IF NotYet(instances[frame[t].cls])
       THEN /\ pc' = [pc EXCEPT ![t] = "call_new"]
            /\ UNCHANGED <<frame, lockOwner>>
       ELSE /\ lockOwner' = [lockOwner EXCEPT ![frame[t].held] = NoThread]
            /\ frame' = [frame EXCEPT ![t] = SLeave(t, instances[frame[t].cls], "none")]
            /\ pc' = [pc EXCEPT ![t] = "idle"]
    /\ UNCHANGED <<instances, engines, ninit, wr_lock, raw, last>>

\* __call__: super().__call__(*args, **kwargs) creates the object and runs its
\* __init__ to the end
CallNew(t) ==
    /\ pc[t] = "call_new"
    /\ engines' = Append(engines, [cls |-> frame[t].cls])
    /\ ninit' = ninit + 1
    /\ frame' = [frame EXCEPT ![t].ret = Len(engines) + 1]
    /\ pc' = [pc EXCEPT ![t] = "call_store"]
    /\ UNCHANGED <<instances, lockOwner, wr_lock, raw, last>>

\* __call__: cls._instances[cls] = ret, end of the with-block, return ret
CallStore(t) ==
    /\ pc[t] = "call_store"
    /\ instances' = [instances EXCEPT ![frame[t].cls] = frame[t].ret]
    /\ lockOwner' = [lockOwner EXCEPT ![frame[t].held] = NoThread]
    /\ frame' = [frame EXCEPT ![t] = SLeave(t, frame[t].ret, "none")]
    /\ pc' = [pc EXCEPT ![t] = "idle"]
    /\ UNCHANGED <<engines, ninit, wr_lock, raw, last>>

\* thread t calls c.instance(): functools.cache returns what an earlier call
\* for c returned, and calls the function when it holds nothing for c
BeginInstance(t, c) ==
    /\ CanCall(t)
    /\ IF last[c] # 0
       THEN /\ frame' = [frame EXCEPT ![t] = [SEnter(t, "instance", c) EXCEPT !.ret = last[c]]]
            /\ pc' = pc
       ELSE /\ frame' = [frame EXCEPT ![t] = SEnter(t, "instance", c)]
            /\ pc' = [pc EXCEPT ![t] = "inst_lock"]
    /\ UNCHANGED <<instances, engines, ninit, lockOwner, wr_lock, raw, last>>

\* instance: with mcs._lock
InstLock(t) ==
    /\ pc[t] = "inst_lock"
    /\ CanAcquire(wr_lock, t)
    /\ wr_lock' = t
    /\ pc' = [pc EXCEPT ![t] = "inst_cls"]
    /\ UNCHANGED <<instances, engines, ninit, lockOwner, raw, frame, last>>

\* instance: cls_lock = mcs._cls_locks[t], end of the with-block
InstCls(t) ==
    /\ pc[t] = "inst_cls"
    /\ frame' = [frame EXCEPT ![t].held = _cls_locks(frame[t].cls)]
    /\ wr_lock' = NoThread
    /\ pc' = [pc EXCEPT ![t] = "inst_with"]
    /\ UNCHANGED <<instances, engines, ninit, lockOwner, raw, last>>

\* instance: with cls_lock
InstWith(t) ==
    /\ pc[t] = "inst_with"
    /\ CanAcquire(lockOwner[frame[t].held], t)
    /\ lockOwner' = [lockOwner EXCEPT ![frame[t].held] = t]
    /\ pc' = [pc EXCEPT ![t] = "inst_get"]
    /\ UNCHANGED <<instances, engines, ninit, wr_lock, raw, frame, last>>

\* instance: the lookup, the end of the with-block, and the return or raise;
\* functools.cache keeps a returned value and forgets an exception
InstGet(t) ==
    /\ pc[t] = "inst_get"
    /\ \E r \in {instance_get(instances[frame[t].cls])} :
          /\ frame' = [frame EXCEPT ![t] = SLeave(t, r.ret, r.exc)]
          /\ last' = IF r.exc = "none" THEN [last EXCEPT ![frame[t].cls] = r.ret] ELSE last
    /\ lockOwner' = [lockOwner EXCEPT ![frame[t].held] = NoThread]
    /\ pc' = [pc EXCEPT ![t] = "idle"]
    /\ UNCHANGED <<instances, engines, ninit, wr_lock, raw>>

\* both classes are defined, neither has an instance, no lock is held
InitSingleton ==
    /\ instances = [c \in Classes |-> 0]
    /\ engines = <<>>
    /\ ninit = 0
    /\ lockOwner = [i \in 1..Cardinality(Classes) |-> NoThread]
    /\ wr_lock = NoThread
    /\ raw = <<>>
    /\ pc = [t \in Threads |-> "idle"]
    /\ frame = [t \in Threads |-> NoFrame]
    /\ last = [c \in Classes |-> 0]

NextSingleton ==
    \E t \in Threads :
        \/ \E c \in Classes : BeginCall(t, c)
        \/ CallLock(t)
        \/ CallCls(t)
        \/ CallWith(t)
        \/ CallGet(t)
        \/ CallNew(t)
        \/ CallStore(t)
        \/ \E c \in Classes : BeginInstance(t, c)
        \/ InstLock(t)
        \/ InstCls(t)
        \/ InstWith(t)
        \/ InstGet(t)

\* threads constructing singletons and asking for their instances concurrently
SpecSingleton == InitSingleton /\ [][NextSingleton]_vars

\* ------------------------------------------------------- freezable objects
\* the classes whose instances a caller uses: a subclass of
\* zstdlib.frozen.Freezable, a subclass of zstdlib.freezable.Freezable, the
\* class of test_frozen decorated with @frozen, and the class of
\* test_frozen_custom decorated with @frozen("custom")
FreezableClasses == {"frozen.Freezable", "freezable.Freezable"}
DecoratedClasses == {"frozen", "frozen_custom"}
FreezeClasses == FreezableClasses \cup DecoratedClasses

\* at most this many objects are constructed
MaxObjects == 1

\* the attributes a caller assigns and deletes, and the values it assigns
Keys == {"a", "b"}
Vals == {"1", "2"}

\* an instance __dict__ maps every name to its value, Absent when not set
Absent == "absent"
Slots == Keys \cup {"_freezable_frozen_", "_freezable_can_thaw_", "_frozen", "_can_thaw"}
EmptyDict == [k \in Slots |-> Absent]

\* what a call leaves: the instance __dict__ and the exception it raised
Outcome(d, exc) == [dict |-> d, exc |-> exc]

\* hasattr(self, k) and getattr(self, k, default)
hasattr(d, k) == d[k] # Absent
getattr(d, k, default) == IF hasattr(d, k) THEN d[k] ELSE default

\* the truth value of an attribute value
Truthy(v) == v \notin {"False", Absent}

\* object.__setattr__ and object.__delattr__
object_setattr(d, k, v) == Outcome([d EXCEPT ![k] = v], "none")
object_delattr(d, k) ==
    IF hasattr(d, k) THEN Outcome([d EXCEPT ![k] = Absent], "none")
    ELSE Outcome(d, "AttributeError")

\* the names of the two flags: frozen.py prefixes them with _freezable_
\* (the decorator uses the same frozen flag), freezable.py does not
_frozen_name(c) == IF c = "freezable.Freezable" THEN "_frozen" ELSE "_freezable_frozen_"
_can_thaw_name(c) == IF c = "freezable.Freezable" THEN "_can_thaw" ELSE "_freezable_can_thaw_"

\* an assignment that never looks at the frozen flag
setattr_unguarded(c, d, k, v) == object_setattr(d, k, v)

\* __setattr__ of Freezable (both modules) and the one mk_frozen installs
__setattr__(c, d, k, v) ==
    IF Truthy(getattr(d, _frozen_name(c), "False")) THEN Outcome(d, "AttributeError")
    ELSE object_setattr(d, k, v)

\* __delattr__ of Freezable (both modules) and the one mk_frozen installs
__delattr__(c, d, k) ==
    IF Truthy(getattr(d, _frozen_name(c), "False")) THEN Outcome(d, "AttributeError")
    ELSE object_delattr(d, k)

\* Freezable.__init__ (both modules) on an object of class c
Freezable__init__(c, d) ==
    IF hasattr(d, _frozen_name(c)) \/ hasattr(d, _can_thaw_name(c))
    THEN Outcome(d, "ValueError")
    ELSE LET r == __setattr__(c, d, _can_thaw_name(c), "True")
         IN  IF r.exc # "none" THEN r
             ELSE __setattr__(c, r.dict, _frozen_name(c), "False")

\* a freeze that forgets the permanent flag
frozen_freeze_thawable(d, permanent) ==
    object_setattr(d, "_freezable_frozen_", "True")

\* zstdlib.frozen.Freezable.freeze: both flags are written with
\* object.__setattr__
frozen_freeze(d, permanent) ==
    LET d1 == IF permanent THEN object_setattr(d, "_freezable_can_thaw_", "False").dict
              ELSE d
    IN  object_setattr(d1, "_freezable_frozen_", "True")

\* zstdlib.freezable.Freezable.freeze: both flags are written with plain
\* assignments, which go through the class's own __setattr__
freezable_freeze(d, permanent) ==
    LET c == "freezable.Freezable"
        r == IF permanent THEN __setattr__(c, d, "_can_thaw", "False")
             ELSE Outcome(d, "none")
    IN  IF r.exc # "none" THEN r
        ELSE __setattr__(c, r.dict, "_frozen", "True")

\* freeze on an object of class c
freeze(c, d, permanent) ==
    IF c = "freezable.Freezable" THEN freezable_freeze(d, permanent)
    ELSE frozen_freeze(d, permanent)

\* a thaw that never looks at the can-thaw flag
thaw_always(c, d) == object_setattr(d, _frozen_name(c), "False")

\* Freezable.thaw (both modules)
thaw(c, d) ==
    IF ~hasattr(d, _can_thaw_name(c)) THEN Outcome(d, "AttributeError")
    ELSE IF ~Truthy(d[_can_thaw_name(c)]) THEN Outcome(d, "RuntimeError")
    ELSE object_setattr(d, _frozen_name(c), "False")

\* the properties frozen and thawable of zstdlib.frozen.Freezable
frozen_property(d) == d["_freezable_frozen_"]
thawable(d) == d["_freezable_can_thaw_"]

\* one statement of a method body: an assignment or a deletion on self
Assign(k, v) == [op |-> "set", key |-> k, value |-> v]
Del(k) == [op |-> "del", key |-> k, value |-> Absent]

\* the bodies of the methods of the two decorated test classes
Body(c, method) ==
    IF c = "frozen" /\ method = "__init__" THEN <<Assign("a", "1"), Assign("b", "1"), Del("b")>>
    ELSE IF c = "frozen_custom" /\ method = "__init__" THEN <<Assign("a", "1")>>
    ELSE IF c = "frozen_custom" /\ method = "custom" THEN <<Assign("a", "2")>>
    ELSE <<>>

\* running a method body on self: every statement goes through the class's
\* __setattr__ or __delattr__, the first exception ends the call
RECURSIVE Run(_, _, _)
Run(c, d, stmts) ==
    IF stmts = <<>> THEN Outcome(d, "none")
    ELSE LET s == Head(stmts)
             r == IF s.op = "set" THEN __setattr__(c, d, s.key, s.value)
                  ELSE __delattr__(c, d, s.key)
         IN  IF r.exc # "none" THEN r ELSE Run(c, r.dict, Tail(stmts))

\* the method the decorator was given for class c
designated(c) == IF c = "frozen" THEN "__init__" ELSE "custom"

\* a replacement method that leaves the object as the original method did
new_method_plain(c, d, method) == Run(c, d, Body(c, method))

\* mk_frozen's new_method: the original method, then the frozen flag is set
new_method(c, d, method) ==
    LET r == Run(c, d, Body(c, method))
    IN  IF r.exc # "none" THEN r
        ELSE __setattr__(c, r.dict, "_freezable_frozen_", "True")

\* calling method on an object of decorated class c: mk_frozen replaced the
\* designated method alone
Method(c, d, method) ==
    IF method = designated(c) THEN new_method(c, d, method)
    ELSE Run(c, d, Body(c, method))

\* c(): a new object after its __init__
construct(c) ==
    IF c \in FreezableClasses THEN Freezable__init__(c, EmptyDict)
    ELSE Method(c, EmptyDict, "__init__")

\* the record of a call: the operation, the object, its arguments, whether
\* the object was frozen when the call began, and the exception raised
NoUse == [op |-> "none", o |-> 0, key |-> "none", value |-> Absent,
          permanent |-> FALSE, was |-> FALSE, exc |-> "none"]

\* object o is frozen: what __setattr__ and __delattr__ test
IsFrozen(o) == Truthy(getattr(engines[o].dict, _frozen_name(engines[o].cls), "False"))

\* a call on object o ends with outcome r
Use(o, r, call) ==
    /\ engines' = [engines EXCEPT ![o].dict = r.dict]
    /\ last' = [call EXCEPT !.o = o, !.was = IsFrozen(o), !.exc = r.exc]
    /\ UNCHANGED <<instances, ninit, lockOwner, wr_lock, raw, pc, frame>>

\* the caller constructs an object of class c
Construct(c) ==
    /\ Len(engines) < MaxObjects
    /\ LET r == construct(c)
       IN  /\ engines' = IF r.exc = "none" THEN Append(engines, [cls |-> c, dict |-> r.dict])
                         ELSE engines
           /\ last' = [NoUse EXCEPT !.op = "new", !.o = Len(engines'), !.exc = r.exc]
    /\ UNCHANGED <<instances, ninit, lockOwner, wr_lock, raw, pc, frame>>

\* o.freeze() and o.freeze(permanent=True)
CallFreeze(o, permanent) ==
    /\ engines[o].cls \in FreezableClasses
    /\ Use(o, freeze(engines[o].cls, engines[o].dict, permanent),
           [NoUse EXCEPT !.op = "freeze", !.permanent = permanent])

\* o.thaw()
CallThaw(o) ==
    /\ engines[o].cls \in FreezableClasses
    /\ Use(o, thaw(engines[o].cls, engines[o].dict), [NoUse EXCEPT !.op = "thaw"])

\* o.k = v
CallSetattr(o, k, v) ==
    Use(o, __setattr__(engines[o].cls, engines[o].dict, k, v),
        [NoUse EXCEPT !.op = "setattr", !.key = k, !.value = v])

\* del o.k
CallDelattr(o, k) ==
    Use(o, __delattr__(engines[o].cls, engines[o].dict, k),
        [NoUse EXCEPT !.op = "delattr", !.key = k])

\* o.custom() on an object of the class decorated with @frozen("custom")
CallCustom(o) ==
    /\ engines[o].cls = "frozen_custom"
    /\ Use(o, Method("frozen_custom", engines[o].dict, "custom"),
           [NoUse EXCEPT !.op = "custom"])

InitFrozen ==
    /\ instances = <<>>
    /\ engines = <<>>
    /\ ninit = 0
    /\ lockOwner = <<>>
    /\ wr_lock = NoThread
    /\ raw = <<>>
    /\ pc = [t \in Threads |-> "idle"]
    /\ frame = [t \in Threads |-> NoFrame]
    /\ last = NoUse

NextFrozen ==
    \/ \E c \in FreezeClasses : Construct(c)
    \/ \E o \in DOMAIN engines :
        \/ \E permanent \in BOOLEAN : CallFreeze(o, permanent)
        \/ CallThaw(o)
        \/ \E k \in Keys, v \in Vals : CallSetattr(o, k, v)
        \/ \E k \in Keys : CallDelattr(o, k)
        \/ CallCustom(o)

\* one caller constructing, freezing, thawing and modifying objects
SpecFrozen == InitFrozen /\ [][NextFrozen]_vars

\* ---------------------------------------------------------------- claims
\* the places of a thread inside a constructor call
ObtainPcs == {"new_lock", "new_get", "new_create", "init"}

\* the places of a thread inside the with self.lock block of a method
SectionPcs == {"read_body", "unread_body", "peek_read", "peek_unread",
               "ru_start", "ru_loop"}

ObtainStep(t) ==
    /\ pc'[t] # pc[t] \/ frame'[t] # frame[t]
    /\ pc[t] \in ObtainPcs \/ pc'[t] \in ObtainPcs

\* C2: obtaining the engine of a stream that already has one leaves the
\* engine untouched: once an engine has been returned to a caller, no step of
\* a later constructor call changes its buffer, its facade or its mutex.
C2_ObtainKeepsEngine ==
    [][\A e \in 1..Len(engines) :
         ((\E u \in Threads : e \in Held(u)) /\ (\E t \in Threads : ObtainStep(t)))
         => engines'[e] = engines[e]]_vars

\* C3: at most one thread at a time is inside the locked section of an
\* operation on one engine.
C3_MutualExclusion ==
    \A t, u \in Threads :
        (t # u /\ pc[t] \in SectionPcs /\ pc[u] \in SectionPcs)
        => frame[t].self # frame[u].self

\* the element kind chosen when the engine was wrapped
EngineKind(e) == IF engines[e].cls = "TextIO" THEN "str" ELSE "bytes"

Prefix(s, n) == SubSeq(s, 1, Min(n, Len(s)))
Suffix(s, n) == SubSeq(s, Min(n, Len(s)) + 1, Len(s))

\* C4: on a text engine every read(n), n >= 1, returns the first
\* min(n, remaining) elements of the logical stream (buffer, then raw rest)
\* and removes exactly those: nothing is lost, duplicated or reordered.
C4_ReadDeliversInOrder ==
    [][\A e \in 1..Len(engines) :
         (last'.op = "read" /\ last'.e = e /\ last'.size >= 1
          /\ engines[e].cls = "TextIO")
         => /\ last'.exc = "none"
            /\ last'.ret = Str(Prefix(Logical(e), last'.size))
            /\ Logical(e)' = Suffix(Logical(e), last'.size)]_vars

\* a read(2) on a text engine that returned two elements
C4_Witness ==
    /\ last.op = "read" /\ last.size = 2 /\ last.exc = "none"
    /\ last.ret = Str(<<1, 2>>)
    /\ engines[last.e].cls = "TextIO"

\* C5: whenever a non-empty delimiter d of the engine's kind occurs in the
\* remaining logical stream, readuntil(d) returns the shortest prefix of the
\* stream that ends with d and consumes exactly that prefix.
C5_ReadUntilShortestPrefix ==
    [][\A e \in 1..Len(engines) :
         (last'.op = "readuntil" /\ last'.e = e /\ Len(last'.arg.s) >= 1
          /\ last'.arg.k = EngineKind(e)
          /\ Find(Logical(e), last'.arg.s) # -1)
         => LET n == Find(Logical(e), last'.arg.s) + Len(last'.arg.s)
            IN /\ last'.exc = "none"
               /\ last'.ret = Val(EngineKind(e), Prefix(Logical(e), n))
               /\ Logical(e)' = Suffix(Logical(e), n)]_vars

\* C6: for every integer n, peek(n) returns what read(n) would return, a
\* second peek(n) returns the same value, and a read(n) after the peek
\* returns the same result and leaves the same remaining logical stream as a
\* read(n) without the peek.
C6_PeekIsIdempotent ==
    [][\A e \in 1..Len(engines) :
         (last'.op = "peek" /\ last'.e = e)
         => LET f == RawOf(e)
                before == read(engines[e].buffer, raw[f], last'.size)
                after == read(engines'[e].buffer, raw'[f], last'.size)
                again == peek(engines'[e].buffer, raw'[f], last'.size)
            IN /\ last'.exc = "none"
               /\ last'.ret = before.ret
               /\ again.exc = "none" /\ again.ret = last'.ret
               /\ after.exc = "none" /\ after.ret = before.ret
               /\ after.buffer.s \o after.raw.s = before.buffer.s \o before.raw.s]_vars

\* C7: unread(data), data of the engine's kind, prepends data to the pending
\* buffer and touches nothing else, so data is what the next read(len(data))
\* returns, before any further raw element.
C7_UnreadPrepends ==
    [][\A e \in 1..Len(engines) :
         (last'.op = "unread" /\ last'.e = e /\ last'.arg.k = EngineKind(e))
         => /\ last'.exc = "none"
            /\ engines'[e].buffer = Val(EngineKind(e), last'.arg.s \o engines[e].buffer.s)
            /\ raw' = raw
            /\ read(engines'[e].buffer, raw'[RawOf(e)], Len(last'.arg.s)).ret = last'.arg]_vars

\* C10: when the remaining logical stream ends without containing the
\* delimiter d, readuntil(d, eof_ok=False) raises EOFError and readuntil(d)
\* with eof_ok=True returns all the data up to end-of-stream.
C10_ReadUntilAtEof ==
    [][\A e \in 1..Len(engines) :
         (last'.op = "readuntil" /\ last'.e = e /\ Len(last'.arg.s) >= 1
          /\ last'.arg.k = EngineKind(e)
          /\ Find(Logical(e), last'.arg.s) = -1)
         => IF last'.eof_ok
            THEN /\ last'.exc = "none"
                 /\ last'.ret = Val(EngineKind(e), Logical(e))
            ELSE last'.exc = "EOFError"]_vars

\* the call e.op(...) completed in this step
Called(op, e) == last'.op = op /\ last'.e = e

\* C11: readuntil rejects a bad delimiter before doing anything: an empty
\* delimiter of the engine's kind fails with ValueError, a non-empty delimiter
\* of the other kind fails with TypeError, a delimiter that is both fails with
\* one of the two, and in every such case the pending buffer is unchanged, the
\* engine mutex is not taken and the raw stream is not read.
C11_ReadUntilRejectsBadDelimiter ==
    [][\A e \in 1..Len(engines) :
         (Called("readuntil", e)
          /\ (Len(last'.arg.s) = 0 \/ last'.arg.k # EngineKind(e)))
         => /\ last'.exc \in {"ValueError", "TypeError"}
            /\ last'.arg.k = EngineKind(e) => last'.exc = "ValueError"
            /\ Len(last'.arg.s) > 0 => last'.exc = "TypeError"
            /\ engines'[e].buffer = engines[e].buffer
            /\ raw' = raw
            /\ last'.calls = <<>>
            /\ ~last'.locked]_vars

\* C8: in every reachable state an initialised engine's pending buffer has
\* the element kind chosen at wrap time: str for TextIO, bytes for BinaryIO.
C8_BufferKind ==
    \A e \in 1..Len(engines) :
        engines[e].lock # 0 => engines[e].buffer.k = EngineKind(e)

\* what the stream itself declares, by its mode string or its IO base class
DeclaresText(f) ==
    (Len(Mode(f)) > 0 /\ \A i \in 1..Len(Mode(f)) : Mode(f)[i] # "b") \/ IsTextBase(f)
DeclaresBinary(f) ==
    (\E i \in 1..Len(Mode(f)) : Mode(f)[i] = "b") \/ IsBinaryBase(f)
IsTextStream(f) == DeclaresText(f) /\ ~DeclaresBinary(f)
IsBinaryStream(f) == DeclaresBinary(f) /\ ~DeclaresText(f)

\* thread t starts a call in this step
Started(t) == frame'[t].calls = frame[t].calls + 1

\* the call of thread t ends in this step
Returned(t) == pc'[t] = "idle" /\ (pc[t] # "idle" \/ Started(t))

\* the call t starts raises TypeError at once and creates and registers nothing
Rejected(t) ==
    /\ frame'[t].exc = "TypeError" /\ pc'[t] = "idle"
    /\ frame'[t].got = frame[t].got
    /\ instances' = instances /\ engines' = engines

\* C9: TextIO(f) raises TypeError when f is a binary stream and BinaryIO(f)
\* raises TypeError when f is a text stream, neither creating nor registering
\* an engine; io(f) returns a TextIO engine for a text stream and a BinaryIO
\* engine for a binary stream.
C9_WrapValidation ==
    [][\A t \in Threads :
         /\ (Started(t) /\ frame'[t].op = "TextIO" /\ IsBinaryStream(frame'[t].f))
            => Rejected(t)
         /\ (Started(t) /\ frame'[t].op = "BinaryIO" /\ IsTextStream(frame'[t].f))
            => Rejected(t)
         /\ (Returned(t) /\ frame'[t].op = "io" /\ frame'[t].binary = "None")
            => /\ frame'[t].exc = "none"
               /\ frame'[t].got[frame'[t].f] # 0
               /\ IsTextStream(frame'[t].f)
                  => engines'[frame'[t].got[frame'[t].f]].cls = "TextIO"
               /\ IsBinaryStream(frame'[t].f)
                  => engines'[frame'[t].got[frame'[t].f]].cls = "BinaryIO"]_vars

\* TextIO(fb) was rejected, BinaryIO(fs) was rejected, no engine exists
C9_Witness ==
    /\ pc["t1"] = "idle" /\ frame["t1"].op = "TextIO" /\ frame["t1"].f = "fb"
    /\ frame["t1"].exc = "TypeError"
    /\ pc["t2"] = "idle" /\ frame["t2"].op = "BinaryIO" /\ frame["t2"].f = "fs"
    /\ frame["t2"].exc = "TypeError"
    /\ engines = <<>>

\* C12: unread(data) with data whose element kind differs from the engine's
\* kind fails with TypeError and leaves the pending buffer exactly as it was;
\* unread with data of the engine's kind never fails, whatever its size.
C12_UnreadKindCheck ==
    [][\A e \in 1..Len(engines) :
         Called("unread", e)
         => IF last'.arg.k # EngineKind(e)
            THEN last'.exc = "TypeError" /\ engines'[e].buffer = engines[e].buffer
            ELSE last'.exc = "none"]_vars

\* C13: read(n) with n unspecified (-1) or any negative n reads until
\* end-of-stream: it returns the whole pending buffer followed by all
\* remaining raw data, in stream order, and leaves the pending buffer empty.
C13_ReadNegativeReadsAll ==
    [][\A e \in 1..Len(engines) :
         (Called("read", e) /\ last'.size < 0)
         => /\ last'.exc = "none"
            /\ last'.ret = Val(EngineKind(e), Logical(e))
            /\ engines'[e].buffer.s = <<>>
            /\ raw'[RawOf(e)].s = <<>>]_vars

\* C14: for n >= 1, read(n) never over-reads: what it returns has at most n
\* elements and starts with the elements taken from the pending buffer, the
\* buffer loses exactly those, and the raw stream is asked for exactly n minus
\* the number taken from the buffer in one read call, and not at all when the
\* buffer already held n elements.
C14_ReadNeverOverReads ==
    [][\A e \in 1..Len(engines) :
         (Called("read", e) /\ last'.size >= 1)
         => LET n == last'.size
                buf == engines[e].buffer.s
                taken == Min(n, Len(buf))
            IN /\ last'.calls = IF taken = n THEN <<>>
                                ELSE <<RawCall("read", n - taken)>>
               /\ engines'[e].buffer.s = Suffix(buf, taken)
               /\ Len(raw[RawOf(e)].s) - Len(raw'[RawOf(e)].s) <= n - taken
               /\ last'.exc = "none"
                  => /\ Len(last'.ret.s) <= n
                     /\ Prefix(last'.ret.s, taken) = Prefix(buf, taken)]_vars

\* a read(2) that took one element from the buffer and asked the raw stream
\* for the one that was missing
C14_Witness ==
    /\ last.op = "read" /\ last.size = 2 /\ last.exc = "none"
    /\ last.calls = <<RawCall("read", 1)>>
    /\ Len(last.ret.s) = 2

\* C15: read() and read(n) on an engine with an empty pending buffer whose
\* raw stream is at end-of-stream return the empty sequence of the engine's
\* kind and never raise, also when the raw stream's read returns None at
\* end-of-stream.
C15_ReadAtEofIsEmpty ==
    [][\A e \in 1..Len(engines) :
         (Called("read", e) /\ engines[e].buffer.s = <<>> /\ raw[RawOf(e)].s = <<>>)
         => /\ last'.exc = "none"
            /\ last'.ret = Val(EngineKind(e), <<>>)]_vars

\* thread t calls read(0) in this step
ReadZero(t) == Started(t) /\ frame'[t].op = "read" /\ frame'[t].size = 0

\* C16: read(0) returns an empty result immediately, without acquiring the
\* engine mutex, without reading the raw stream and without changing the
\* buffer; a thread that may start a call can always complete read(0) on an
\* engine it holds, also while another thread holds that engine's mutex.
C16_ReadZeroTakesNoLock ==
    /\ [](\A t \in Threads : \A e \in Held(t) :
             CanCall(t) => ENABLED BeginRead(t, e, 0))
    /\ [][\A t \in Threads :
             ReadZero(t)
             => /\ pc'[t] = "idle"
                /\ frame'[t].exc = "none"
                /\ frame'[t].val.s = <<>>
                /\ lockOwner' = lockOwner
                /\ raw' = raw
                /\ engines' = engines]_vars

\* t2 has completed read(0) on the engine whose mutex t1 holds inside read(1)
C16_Witness ==
    /\ pc["t1"] = "read_body"
    /\ lockOwner[engines[frame["t1"].self].lock] = "t1"
    /\ frame["t1"].self \in Held("t2")
    /\ pc["t2"] = "idle" /\ frame["t2"].op = "read" /\ frame["t2"].size = 0
    /\ frame["t2"].exc = "none" /\ frame["t2"].val = Str(<<>>)

\* the call completed in this step returned the first n elements of the
\* pending buffer, removed them from it, and made no call on the raw stream
FromBufferAlone(e, n) ==
    /\ last'.exc = "none"
    /\ last'.ret = Val(engines[e].buffer.k, Prefix(engines[e].buffer.s, n))
    /\ engines'[e].buffer = Val(engines[e].buffer.k, Suffix(engines[e].buffer.s, n))
    /\ last'.calls = <<>>
    /\ raw' = raw

\* C17: the engine reads the raw stream only when its pending buffer cannot
\* satisfy the request: read(n) with 1 <= n <= len(buffer), readline() with a
\* newline in the buffer, and readuntil(d) with an occurrence of d in the
\* buffer all return from the buffer alone and make no raw-stream read.
C17_BufferedDataNeedsNoRawRead ==
    [][\A e \in 1..Len(engines) :
         LET buf == engines[e].buffer
         IN /\ (Called("read", e) /\ 1 <= last'.size /\ last'.size <= Len(buf.s))
               => FromBufferAlone(e, last'.size)
            /\ (Called("readline", e) /\ Find(buf.s, <<NL>>) # -1)
               => FromBufferAlone(e, Find(buf.s, <<NL>>) + 1)
            /\ (Called("readuntil", e) /\ last'.arg.k = buf.k
                /\ Len(last'.arg.s) >= 1 /\ Find(buf.s, last'.arg.s) # -1)
               => FromBufferAlone(e, Find(buf.s, last'.arg.s) + Len(last'.arg.s))]_vars

\* a readuntil that found its delimiter in the buffer, before the end of the
\* buffer, while the raw stream still had data
C17_Witness ==
    /\ last.op = "readuntil" /\ last.exc = "none" /\ last.calls = <<>>
    /\ last.ret = Str(<<1>>) /\ last.arg = Str(<<1>>)
    /\ engines[last.e].buffer = Str(<<2>>)
    /\ raw[RawOf(last.e)].s # <<>>

\* the lengths j of the proper non-empty prefixes of d that buf ends with and
\* that the next elements of rest complete to d
Completing(buf, d, rest) ==
    {j \in 1..(Len(d) - 1) :
        /\ EndsWith(buf, Prefix(d, j))
        /\ Len(rest) >= Len(d) - j
        /\ Prefix(rest, Len(d) - j) = SubSeq(d, j + 1, Len(d))}

\* C18: when the pending buffer does not contain the delimiter d but ends
\* with a proper non-empty prefix of d, and the raw stream's next elements
\* complete d, readuntil(d) returns the buffer content followed by the rest
\* of d and issues no more than one raw-stream read to do so.
C18_ReadUntilCompletesPrefix ==
    [][\A e \in 1..Len(engines) :
         LET buf == engines[e].buffer.s
             d == last'.arg.s
             js == Completing(buf, d, raw[RawOf(e)].s)
         IN (Called("readuntil", e) /\ last'.arg.k = EngineKind(e)
             /\ Find(buf, d) = -1 /\ js # {})
            => LET j == CHOOSE j \in js : \A i \in js : i <= j
               IN /\ last'.exc = "none"
                  /\ last'.ret = Val(EngineKind(e), buf \o SubSeq(d, j + 1, Len(d)))
                  /\ Len(last'.calls) <= 1]_vars

\* the remaining logical stream up to and including its first newline, all
\* of it when it has none
FirstLine(s) ==
    IF Find(s, <<NL>>) = -1 THEN s ELSE Prefix(s, Find(s, <<NL>>) + 1)

\* C19: readline() returns the elements of the remaining logical stream up
\* to and including the first newline (or up to end-of-stream when there is
\* none), consuming exactly those elements, whether the newline lies in the
\* pending buffer or in the raw stream; it returns the empty result only when
\* the buffer is empty and the raw stream is at end-of-stream.
C19_ReadlineReturnsFirstLine ==
    [][\A e \in 1..Len(engines) :
         Called("readline", e)
         => /\ last'.exc = "none"
            /\ last'.ret = Val(EngineKind(e), FirstLine(Logical(e)))
            /\ Logical(e)' = Suffix(Logical(e), Len(FirstLine(Logical(e))))
            /\ last'.ret.s = <<>>
               => (engines[e].buffer.s = <<>> /\ raw[RawOf(e)].s = <<>>)]_vars

\* C20: readlines() returns the list of the successive non-empty readline()
\* results up to end-of-stream: no element of the list is empty, every
\* element is the first line of what the elements before it left, the
\* concatenation of the list equals the whole remaining logical stream, and
\* afterwards the buffer is empty and the raw stream is at end-of-stream.
C20_ReadlinesReturnsAllLines ==
    [][\A e \in 1..Len(engines) :
         Called("readlines", e)
         => /\ last'.exc = "none"
            /\ \A i \in 1..Len(last'.lines) :
                  /\ last'.lines[i].k = EngineKind(e)
                  /\ last'.lines[i].s # <<>>
                  /\ last'.lines[i].s =
                        FirstLine(Suffix(Logical(e),
                                         Len(Joined(SubSeq(last'.lines, 1, i - 1)))))
            /\ Joined(last'.lines) = Logical(e)
            /\ engines'[e].buffer.s = <<>>
            /\ raw'[RawOf(e)].s = <<>>]_vars

\* the prefixes the façade protects: read, seek, getbuffer, getvalue, detach
ProtectedWords ==
    { <<"r", "e", "a", "d">>, <<"s", "e", "e", "k">>,
      <<"g", "e", "t", "b", "u", "f", "f", "e", "r">>,
      <<"g", "e", "t", "v", "a", "l", "u", "e">>,
      <<"d", "e", "t", "a", "c", "h">> }

C22_RegistryKeepsNothingAlive ==
    \A f \in Streams :
        (instances[f] # 0 /\ \A t \in Threads : f \notin frame[t].has)
            => ~StrongFromRegistry(f)

\* the obtain call asks for a kind that the declaration of stream f contradicts
Contradicts(op, binary, f) ==
    \/ op = "TextIO" /\ DeclaresBinary(f)
    \/ (op = "BinaryIO" \/ (op = "io" /\ binary = "True")) /\ DeclaresText(f)

\* the statement of C23 as the spec words it: with an engine registered for f,
\* every obtain call for f returns that engine and raises nothing
C23_CachedObtainSkipsValidation ==
    [][(last'.op \in {"TextIO", "BinaryIO", "io"} /\ instances[last'.f] # 0)
          => last'.exc = "none" /\ last'.e = instances[last'.f]]_vars

\* C23: when an engine already exists for raw stream f, an obtain call for f
\* is validated like a first wrap: a call whose requested kind the stream's
\* declaration contradicts raises TypeError and leaves the registry and the
\* engines as they were; every other obtain call returns the existing engine,
\* whatever its class, and the registry keeps its entry
C23_CachedObtainValidatesFirst ==
    [][(last'.op \in {"TextIO", "BinaryIO", "io"} /\ instances[last'.f] # 0)
          => IF Contradicts(last'.op, last'.arg.s[1], last'.f)
             THEN last'.exc = "TypeError" /\ instances' = instances /\ engines' = engines
             ELSE last'.exc = "none" /\ last'.e = instances[last'.f]
                  /\ instances' = instances]_vars

\* BinaryIO(fn) returned the TextIO engine registered for fn
C23_Witness ==
    /\ last.op = "BinaryIO"
    /\ last.exc = "none"
    /\ last.e = instances[last.f]
    /\ engines[last.e].cls = "TextIO"

\* what each detection method says about stream f: the binary argument, the
\* mode string, the IO base class
SaysBinary(f, binary) ==
    binary = "True" \/ (\E i \in 1..Len(Mode(f)) : Mode(f)[i] = "b") \/ IsBinaryBase(f)
SaysText(f, binary) ==
    \/ binary = "False"
    \/ (Len(Mode(f)) > 0 /\ \A i \in 1..Len(Mode(f)) : Mode(f)[i] # "b")
    \/ IsTextBase(f)

\* C24: io(raw, binary) raises TypeError and creates no engine whenever one
\* detection method says raw is binary and another says it is text, for every
\* binary in {None, True, False}, every mode and every base class
C24_IoRejectsDisagreement ==
    [][(last'.op = "io" /\ SaysBinary(last'.f, last'.arg.s[1])
                        /\ SaysText(last'.f, last'.arg.s[1]))
          => last'.exc = "TypeError" /\ engines' = engines /\ instances' = instances]_vars

\* C25: io(raw) with binary not given raises TypeError when raw has no mode
\* string and none of the IO base classes; it picks no kind for such a stream
C25_IoRejectsUndetermined ==
    (last.op = "io" /\ last.arg.s[1] = "None"
        /\ ~SaysBinary(last.f, "None") /\ ~SaysText(last.f, "None"))
      => last.exc = "TypeError"

\* C26: readuntil never drops data: however the call ends (delimiter found,
\* end-of-stream with eof_ok=True, or an exception), the elements it took from
\* the pending buffer and from the raw stream are its result or are back in
\* the pending buffer in order, so the result (nothing when it raised)
\* followed by the remaining logical stream is the logical stream before the
\* call
C26_ReadUntilDropsNothing ==
    [][\A e \in 1..Len(engines) :
         Called("readuntil", e)
         => Logical(e) = (IF last'.exc = "none" THEN last'.ret.s ELSE <<>>)
                            \o engines'[e].buffer.s \o raw'[RawOf(e)].s]_vars

\* the stream whose engine thread t is obtaining or operating on
Target(t) ==
    IF pc[t] \in ObtainPcs THEN frame[t].f
    ELSE IF pc[t] \in SectionPcs THEN RawOf(frame[t].self)
    ELSE "none"

\* the places where the next statement of a call takes a lock: with
\* cls._wr_lock in __new__, and the nested self.lock of the read and the
\* unread that peek calls
AcquirePcs == {"new_lock", "peek_read", "peek_unread"}

\* the next step of the call thread u is in, at such a place
Continue(u) == NewLock(u) \/ PeekRead(u) \/ PeekUnread(u)

\* C27: distinct streams never contend. The registry-wide lock is held only
\* during the lookup and insert of __new__, never where a thread acquires an
\* engine mutex or reads a raw stream; and while a thread is inside an
\* operation of one engine, another thread is never made to wait when it
\* obtains the engine of a different stream or operates on it: every step of
\* its call that takes a lock is enabled, and so is the start of io(g) and of
\* read, peek, readuntil and unread
C27_DistinctStreamsNeverContend ==
    /\ \A t \in Threads : wr_lock = t => pc[t] \in {"new_get", "new_create"}
    /\ \A t, u \in Threads :
          (t # u /\ pc[t] \in SectionPcs) =>
             /\ (pc[u] \in AcquirePcs /\ Target(u) # Target(t)) => ENABLED Continue(u)
             /\ CanCall(u) =>
                   /\ \A g \in Streams \ {Target(t)} : ENABLED BeginIo(u, g, "None")
                   /\ \A e \in Held(u) :
                         RawOf(e) # Target(t) =>
                            /\ ENABLED BeginRead(u, e, 1)
                            /\ ENABLED BeginPeek(u, e, 1)
                            /\ ENABLED BeginReadUntil(u, e, Str(<<2>>), TRUE)
                            /\ Len(engines[e].buffer.s) < MaxBuf
                                  => ENABLED BeginUnread(u, e, Str(<<1>>))

\* both threads are inside an operation at the same time, t1 on the engine of
\* fs and t2 on the engine of fb, and t2 can complete its step
C27_Witness ==
    /\ pc["t1"] \in SectionPcs /\ RawOf(frame["t1"].self) = "fs"
    /\ pc["t2"] \in SectionPcs /\ RawOf(frame["t2"].self) = "fb"
    /\ frame["t1"].held # frame["t2"].held
    /\ wr_lock = NoThread

\* the places of a thread inside _SingletonType.__call__
CallPcs == {"call_lock", "call_cls", "call_with", "call_get", "call_new", "call_store"}

\* the objects of class c constructed so far: one per run of c's __init__
ObjectsOf(c) == {i \in 1..Len(engines) : engines[i].cls = c}

\* the next step of the constructor call thread u is in
ContinueCall(u) ==
    \/ CallLock(u) \/ CallCls(u) \/ CallWith(u)
    \/ CallGet(u) \/ CallNew(u) \/ CallStore(u)

\* C28: for every Singleton subclass C and every interleaving of threads
\* calling C(...), C's __init__ runs at most once and exactly once when a call
\* has returned, every call returns the one registered object, and while one
\* thread is constructing C no other caller of C is past the class lock: a
\* caller that arrived waits there
C28_OneInstancePerClass ==
    /\ \A c \in Classes :
          /\ Cardinality(ObjectsOf(c)) <= 1
          /\ instances[c] # 0 => ObjectsOf(c) = {instances[c]}
    /\ \A t \in Threads :
          (pc[t] = "idle" /\ frame[t].op = "call")
             => frame[t].ret # 0 /\ frame[t].ret = instances[frame[t].cls]
    /\ \A t, u \in Threads :
          (t # u /\ pc[t] \in {"call_new", "call_store"}
                 /\ pc[u] \in CallPcs /\ frame[u].cls = frame[t].cls)
             => /\ pc[u] \in {"call_lock", "call_cls", "call_with"}
                /\ pc[u] = "call_with" => ~ENABLED CallWith(u)

\* t1 is inside the constructor of A and t2, calling A() too, waits for A's
\* lock
C28_Witness ==
    /\ pc["t1"] = "call_new" /\ frame["t1"].cls = "A"
    /\ pc["t2"] = "call_with" /\ frame["t2"].cls = "A"
    /\ lockOwner[frame["t2"].held] = "t1"

\* C29: constructing one Singleton class does not delay constructing another:
\* while a thread is inside the constructor of class A, another thread can
\* start B() for a different class B and take every step of it up to its
\* return, and the objects registered for A and B are different
C29_ClassesConstructIndependently ==
    /\ \A t, u \in Threads :
          (t # u /\ pc[t] = "call_new") =>
             /\ (pc[u] \in CallPcs /\ frame[u].cls # frame[t].cls)
                   => ENABLED ContinueCall(u)
             /\ CanCall(u)
                   => \A c \in Classes \ {frame[t].cls} : ENABLED BeginCall(u, c)
    /\ \A c, d \in Classes :
          (c # d /\ instances[c] # 0 /\ instances[d] # 0) => instances[c] # instances[d]

\* t1 is inside the constructor of A and t2 inside the constructor of B
C29_Witness ==
    /\ pc["t1"] = "call_new" /\ frame["t1"].cls = "A"
    /\ pc["t2"] = "call_new" /\ frame["t2"].cls = "B"

Of(c) == {o \in DOMAIN engines : engines[o].cls = c}

\* the step is a call of op on object o
Does(op, o) == last'.op = op /\ last'.o = o

\* the step leaves every attribute of o but k as it was
OnlyChanges(o, k) ==
    \A n \in Slots \ {k} : engines'[o].dict[n] = engines[o].dict[n]

\* C31: on a zstdlib.frozen.Freezable object, an assignment or a deletion made
\* while the object is frozen raises AttributeError and changes no attribute;
\* made while it is not frozen, an assignment stores the value and a deletion
\* removes the attribute (of an attribute that is set), without raising
C31_FrozenRejectsChanges ==
    [][\A o \in Of("frozen.Freezable") :
        /\ (Does("setattr", o) \/ Does("delattr", o)) /\ IsFrozen(o)
            => last'.exc = "AttributeError" /\ engines'[o] = engines[o]
        /\ Does("setattr", o) /\ ~IsFrozen(o)
            => /\ last'.exc = "none"
               /\ engines'[o].dict[last'.key] = last'.value
               /\ OnlyChanges(o, last'.key)
        /\ Does("delattr", o) /\ ~IsFrozen(o) /\ hasattr(engines[o].dict, last'.key)
            => /\ last'.exc = "none"
               /\ ~hasattr(engines'[o].dict, last'.key)
               /\ OnlyChanges(o, last'.key)]_vars

\* a deletion was refused on a frozen object that still holds its attribute
C31_Witness ==
    /\ last.op = "delattr" /\ last.was /\ last.exc = "AttributeError"
    /\ last.o \in Of("frozen.Freezable")
    /\ hasattr(engines[last.o].dict, last.key)

\* object o of zstdlib.frozen.Freezable is permanently frozen
Permanent(o) == ~Truthy(thawable(engines[o].dict))

\* C32: on a zstdlib.frozen.Freezable object, freeze(permanent=True) leaves
\* frozen True and thawable False; from then on every call leaves both as
\* they are and thaw() raises RuntimeError; a freeze() on an object that can
\* thaw leaves thawable True, and thaw() on it succeeds and unfreezes it
C32_PermanentFreezeIsIrreversible ==
    [][\A o \in Of("frozen.Freezable") :
        /\ Does("freeze", o) /\ last'.permanent
            => Truthy(frozen_property(engines'[o].dict)) /\ ~Truthy(thawable(engines'[o].dict))
        /\ Permanent(o)
            => /\ Truthy(frozen_property(engines'[o].dict))
               /\ ~Truthy(thawable(engines'[o].dict))
               /\ Does("thaw", o) => last'.exc = "RuntimeError"
        /\ ~Permanent(o) /\ Does("freeze", o) /\ ~last'.permanent
            => Truthy(thawable(engines'[o].dict))
        /\ ~Permanent(o) /\ Does("thaw", o)
            => last'.exc = "none" /\ ~Truthy(frozen_property(engines'[o].dict))]_vars

\* thaw() was refused on a permanently frozen object
C32_Witness ==
    /\ last.op = "thaw" /\ last.exc = "RuntimeError"
    /\ last.o \in Of("frozen.Freezable")
    /\ frozen_property(engines[last.o].dict) = "True"
    /\ thawable(engines[last.o].dict) = "False"

\* C33: on a zstdlib.frozen.Freezable object in any state, freeze() and
\* freeze(permanent=True) do not raise and leave the object frozen, and
\* freeze(permanent=True) leaves it not thawable
C33_FreezeNeverRaises ==
    [][\A o \in Of("frozen.Freezable") :
        Does("freeze", o)
            => /\ last'.exc = "none"
               /\ Truthy(frozen_property(engines'[o].dict))
               /\ last'.permanent => ~Truthy(thawable(engines'[o].dict))
               /\ OnlyChanges(o, "_freezable_frozen_") \/ last'.permanent]_vars

\* freeze(permanent=True) was called on a frozen object and made it permanent
C33_Witness ==
    /\ last.op = "freeze" /\ last.permanent /\ last.was /\ last.exc = "none"
    /\ last.o \in Of("frozen.Freezable")
    /\ Permanent(last.o)


\* the object record obj is frozen
Sealed(obj) == Truthy(getattr(obj.dict, _frozen_name(obj.cls), "False"))

\* C34: an instance of a class decorated with @frozen or @frozen("custom") is
\* frozen exactly from the return of the designated method on: the
\* assignments and the deletion the method makes take effect, before the
\* return every assignment and deletion of a set attribute succeeds, the
\* return freezes the instance, and from then on it stays frozen and every
\* assignment and deletion raises AttributeError and changes nothing
C34_FrozenOnceMethodReturned ==
    [][/\ \A o \in DOMAIN engines' \ DOMAIN engines :
            /\ engines'[o].cls = "frozen"
                => /\ Sealed(engines'[o])
                   /\ engines'[o].dict["a"] = "1" /\ engines'[o].dict["b"] = Absent
            /\ engines'[o].cls = "frozen_custom"
                => ~Sealed(engines'[o]) /\ engines'[o].dict["a"] = "1"
       /\ \A o \in Of("frozen") \cup Of("frozen_custom") :
            /\ Sealed(engines[o]) => Sealed(engines'[o])
            /\ ~Sealed(engines[o]) /\ ~Does("custom", o) => ~Sealed(engines'[o])
            /\ ~Sealed(engines[o]) /\ Does("custom", o)
                => /\ last'.exc = "none"
                   /\ engines'[o].dict["a"] = "2"
                   /\ Sealed(engines'[o])
            /\ ~Sealed(engines[o]) /\ Does("setattr", o)
                => last'.exc = "none" /\ engines'[o].dict[last'.key] = last'.value
            /\ ~Sealed(engines[o]) /\ Does("delattr", o) /\ hasattr(engines[o].dict, last'.key)
                => last'.exc = "none" /\ ~hasattr(engines'[o].dict, last'.key)
            /\ Sealed(engines[o]) /\ (Does("setattr", o) \/ Does("delattr", o) \/ Does("custom", o))
                => last'.exc = "AttributeError" /\ engines'[o] = engines[o]]_vars

\* an assignment was refused on an instance whose custom() had returned
C34_Witness ==
    /\ last.op = "setattr" /\ last.was /\ last.exc = "AttributeError"
    /\ last.o \in Of("frozen_custom")
    /\ engines[last.o].dict["a"] = "2"


\* C39: on a zstdlib.freezable.Freezable object in any state,
\* freeze(permanent=True) leaves the object frozen and unable to thaw, a
\* thaw() on an object unable to thaw raises RuntimeError, and freeze() on a
\* frozen object does not raise
C39_StandaloneFreezeAlwaysTakesEffect ==
    [][\A o \in Of("freezable.Freezable") :
        /\ Does("freeze", o) /\ last'.permanent
            => /\ Truthy(engines'[o].dict["_frozen"])
               /\ ~Truthy(engines'[o].dict["_can_thaw"])
        /\ Does("thaw", o) /\ ~Truthy(engines[o].dict["_can_thaw"])
            => last'.exc = "RuntimeError"
        /\ Does("freeze", o) /\ IsFrozen(o) => last'.exc = "none"]_vars


\* the length of the longest suffix of s that is a prefix of d
Overlap(s, d) ==
    LET ks == {k \in 0..Min(Len(s), Len(d)) : Suffix(s, Len(s) - k) = Prefix(d, k)}
    IN  CHOOSE k \in ks : \A j \in ks : j <= k

\* the number of elements the first i raw-stream reads of calls asked for
RECURSIVE AskedFor(_, _)
AskedFor(calls, i) == IF i = 0 THEN 0 ELSE calls[i].size + AskedFor(calls, i - 1)

\* the data a scan that began with buf holds after the first i reads of calls
\* on a raw stream holding rest
Accumulated(buf, rest, calls, i) ==
    buf \o Prefix(rest, Min(Len(rest), AskedFor(calls, i)))

\* C35: in a readuntil(d) call that scans (d non-empty, of the engine's kind
\* and not in the pending buffer), every raw-stream read asks for len(d) minus
\* the length of the longest suffix of the data accumulated before it that is
\* a prefix of d, and when d occurs in the remaining logical stream the call
\* takes nothing from the raw stream beyond the end of its first occurrence
C35_ScanAsksForMissingElements ==
    [][\A e \in 1..Len(engines) :
         LET buf == engines[e].buffer.s
             rest == raw[RawOf(e)].s
             d == last'.arg.s
             calls == last'.calls
         IN (Called("readuntil", e) /\ Len(d) >= 1 /\ last'.arg.k = engines[e].buffer.k
             /\ Find(buf, d) = -1)
            => /\ \A i \in 1..Len(calls) :
                    calls[i].size = Len(d) - Overlap(Accumulated(buf, rest, calls, i - 1), d)
               /\ Find(Logical(e), d) # -1
                    => Len(rest) - Len(raw'[RawOf(e)].s)
                         <= Find(Logical(e), d) + Len(d) - Len(buf)]_vars


\* C36: when the raw stream's read raises during peek(n), the call raises the
\* same exception and the pending buffer holds what it held before the call
C36_FailedPeekRestoresBuffer ==
    [][\A e \in 1..Len(engines) :
         (Called("peek", e) /\ Len(last'.calls) > 0
          /\ RawRead(raw[RawOf(e)], last'.calls[1].size).exc # "none")
         => /\ last'.exc = RawRead(raw[RawOf(e)], last'.calls[1].size).exc
            /\ engines'[e].buffer = engines[e].buffer]_vars


\* the caller is inside readuntil or readlines
InLoop(t) == pc[t] \in {"ru_start", "ru_loop", "rl_loop"}

\* the number of elements left in the raw stream of the engine t works on
RawLeft(t) == Len(raw[RawOf(frame[t].self)].s)

\* C37: on a finite raw stream whose reads return, every readuntil and every
\* readlines call ends; a turn of readuntil's loop that does not end the loop
\* takes at least one element from the raw stream, and readlines ends at the
\* first readline that returns nothing, every other turn shortening the
\* remaining logical stream
C37_LoopsTerminate ==
    /\ InLoop(Caller) ~> pc[Caller] = "idle"
    /\ [][/\ pc[Caller] = "ru_loop" /\ pc'[Caller] = "ru_loop" => RawLeft(Caller)' < RawLeft(Caller)
          /\ pc[Caller] = "rl_loop" /\ pc'[Caller] = "rl_loop"
                => Len(Logical(frame[Caller].self)') < Len(Logical(frame[Caller].self))
          /\ pc[Caller] = "rl_loop" /\ Logical(frame[Caller].self) = <<>>
                => pc'[Caller] = "idle"]_vars

\* a scan is in its loop after a turn that took elements from the raw stream
C37_Witness ==
    /\ pc[Caller] = "ru_loop"
    /\ Len(frame[Caller].chunks) >= 2
    /\ Len(frame[Caller].chunks[2].s) >= 1


\* the lock objects thread t holds
Owns(t) == {i \in DOMAIN lockOwner : lockOwner[i] = t}

\* C38: a thread that is not inside a call holds no engine mutex and not the
\* registry lock, however its last call ended; a thread obtaining an engine
\* holds no engine mutex; a thread inside the with-block of a method holds
\* the one mutex it took and not the registry lock; and the registry lock is
\* held only during the lookup and insert of __new__, where no engine mutex
\* is acquired
C38_NoLockOutlivesItsCall ==
    \A t \in Threads :
        /\ pc[t] = "idle" => Owns(t) = {} /\ wr_lock # t
        /\ pc[t] \in ObtainPcs => Owns(t) = {}
        /\ pc[t] \in SectionPcs => Owns(t) = {frame[t].held} /\ wr_lock # t
        /\ wr_lock = t => pc[t] \in {"new_get", "new_create"}

\* a call of t1 on the engine of a stream ended with the raw stream's
\* exception, and t2 is inside a method of the same engine
C38_Witness ==
    /\ pc["t1"] = "idle" /\ frame["t1"].exc = "OSError" /\ Owns("t1") = {}
    /\ pc["t2"] \in SectionPcs
    /\ Held("t1") = {frame["t2"].self}

====
